---------------------------- MODULE Spec2Model ----------------------------
(***************************************************************************)
(* C-arm guidance simulator: beam-to-anatomy targeting pipeline.           *)
(*                                                                         *)
(* Sources modelled:                                                       *)
(*   src/3DVisualizer/ciartic-app/src/App.jsx   (variant "app")            *)
(*   src/unnamed/part_000                       (variant "p0")             *)
(*   src/unnamed/part_001                       (ControllerPanel 1 and 2)  *)
(*   src/3DVisualizer/ciartic-app/src/constants.js                         *)
(*                                                                         *)
(* Units.  Translations of ControlState are integers in 1e-5 m, rotations  *)
(* in millidegrees, times in milliseconds.  Patient-local coordinates are  *)
(* integers in 1e-2 asset units (centimetres for an asset in metres), so   *)
(* the vote epsilon 1e-4 is exactly one squared unit.  Fractions along a   *)
(* segment are kept as exact rationals (numerator, denominator).           *)
(***************************************************************************)
EXTENDS Integers, Sequences, FiniteSets, TLC

VARIABLES
    appVariant,       \* "app" (App.jsx) or "p0" (part_000)
    panelVariant,     \* 1 or 2: which ControllerPanel of part_001 is mounted
    mounted,          \* the effect closure's `mounted` flag
    loadState,        \* "pending" | "settled": the combined asset promise
    patientBounds,    \* patientBoundsRef.current
    patientModel,     \* patientModelRef.current # null
    sceneHasPatient,  \* bedGroup.add(patientModel) has run
    modelLoading,     \* React state modelLoading
    controls,         \* React state controls (ControlState)
    joints,           \* the joint values the useEffect([controls]) wrote last
    intervalRef,      \* ControllerPanel intervalRef: NoMove or the running loop
    beamActive,       \* React state beamActive
    shot,             \* the pending exposure timer's closure, or NoShot
    lastXray,         \* React state lastXray
    now,              \* performance.now()
    lastDebugUpdate,  \* lastDebugUpdateRef.current
    beamZoneKey,      \* beamZoneKeyRef.current
    beamRegion,       \* beamRegionRef.current
    beamHit,          \* beamHitRef.current
    reqId,            \* "scheduled" | "cancelled": the animate loop's frame request
    frame,            \* what the last animate frame computed (its locals)
    moveTicks,        \* number of movement ticks the panel loop has run
    hist,             \* history: what was published when the exposure started,
                      \* and whether classification ran since the load settled
    fn                \* operand/result record of the pure-function harnesses

mainVars == <<appVariant, panelVariant, mounted, loadState, patientBounds,
              patientModel, sceneHasPatient, modelLoading, controls, joints,
              intervalRef, beamActive, shot, lastXray, now, lastDebugUpdate,
              beamZoneKey, beamRegion, beamHit, reqId, frame, moveTicks,
              hist>>

vars == <<mainVars, fn>>

(***************************************************************************)
(* Small arithmetic helpers.                                               *)
(***************************************************************************)
Min(a, b) == IF a <= b THEN a ELSE b

Max(a, b) == IF a >= b THEN a ELSE b

Abs(a) == IF a < 0 THEN -a ELSE a

\* Exact comparison a/b < c/d for b > 0, d > 0 without forming a*d or c*b
\* (continued-fraction descent; every intermediate stays below the operands).
RECURSIVE FracLt(_, _, _, _)
FracLt(a, b, c, d) ==
    LET qa == IF a >= 0 THEN a \div b ELSE -((-a + b - 1) \div b)
        qc == IF c >= 0 THEN c \div d ELSE -((-c + d - 1) \div d)
        ra == a - qa * b
        rc == c - qc * d
    IN  IF qa # qc THEN qa < qc
        ELSE IF rc = 0 THEN FALSE
        ELSE IF ra = 0 THEN TRUE
        ELSE FracLt(d, rc, b, ra)

(***************************************************************************)
(* ZONE_DEFS: the zone catalog (key -> label).                             *)
(***************************************************************************)
ZoneKeysApp == {"miss", "head", "thorax", "abdomen", "pelvis", "shoulder",
                "humerus", "forearm", "hand", "femur", "knee", "tibia",
                "ankle", "foot"}

ZoneKeysP0 == ZoneKeysApp \cup {"left_shoulder", "right_shoulder"}

ZONE_DEFS(key) ==
    CASE key = "miss"           -> [key |-> "miss", label |-> "MISS (OFF PATIENT)"]
      [] key = "head"           -> [key |-> "head", label |-> "HEAD / NECK"]
      [] key = "thorax"         -> [key |-> "thorax", label |-> "CHEST / THORAX"]
      [] key = "abdomen"        -> [key |-> "abdomen", label |-> "ABDOMEN"]
      [] key = "pelvis"         -> [key |-> "pelvis", label |-> "PELVIS / HIP"]
      [] key = "shoulder"       -> [key |-> "shoulder", label |-> "SHOULDER / CLAVICLE"]
      [] key = "left_shoulder"  -> [key |-> "left_shoulder", label |-> "LEFT SHOULDER"]
      [] key = "right_shoulder" -> [key |-> "right_shoulder", label |-> "RIGHT SHOULDER"]
      [] key = "humerus"        -> [key |-> "humerus", label |-> "HUMERUS / ELBOW"]
      [] key = "forearm"        -> [key |-> "forearm", label |-> "FOREARM / WRIST"]
      [] key = "hand"           -> [key |-> "hand", label |-> "HAND / FINGERS"]
      [] key = "femur"          -> [key |-> "femur", label |-> "FEMUR"]
      [] key = "knee"           -> [key |-> "knee", label |-> "KNEE"]
      [] key = "tibia"          -> [key |-> "tibia", label |-> "TIBIA / FIBULA"]
      [] key = "ankle"          -> [key |-> "ankle", label |-> "ANKLE"]
      [] key = "foot"           -> [key |-> "foot", label |-> "FOOT / TOES"]

\* ZONE_DEFS[key] || ZONE_DEFS.miss : an unknown key falls back to miss.
\* left_shoulder / right_shoulder exist in part_000 only.
ZoneOrMiss(variant, key) ==
    IF key \in (IF variant = "p0" THEN ZoneKeysP0 ELSE ZoneKeysApp)
    THEN ZONE_DEFS(key) ELSE ZONE_DEFS("miss")

(***************************************************************************)
(* EDGES: the sixteen bone segments, in source order.                      *)
(***************************************************************************)
EDGES == <<
    <<"head", "neck">>,
    <<"neck", "upperSpine">>,
    <<"upperSpine", "midSpine">>,
    <<"midSpine", "lowerSpine">>,
    <<"lowerSpine", "leftHip">>,
    <<"leftHip", "leftKnee">>,
    <<"leftKnee", "leftFoot">>,
    <<"lowerSpine", "rightHip">>,
    <<"rightHip", "rightKnee">>,
    <<"rightKnee", "rightFoot">>,
    <<"upperSpine", "leftShoulder">>,
    <<"leftShoulder", "leftElbow">>,
    <<"leftElbow", "leftHand">>,
    <<"upperSpine", "rightShoulder">>,
    <<"rightShoulder", "rightElbow">>,
    <<"rightElbow", "rightHand">> >>

LandmarkNames == {"lowerSpine", "midSpine", "upperSpine", "neck", "head",
                  "rightHip", "rightKnee", "rightFoot",
                  "leftHip", "leftKnee", "leftFoot",
                  "rightShoulder", "rightElbow", "rightHand",
                  "leftShoulder", "leftElbow", "leftHand"}

\* String.prototype.includes on a landmark name, for the substrings the edge
\* rules test (the match is case sensitive: "head" is not in "rightHand").
NameIncludes(name, sub) ==
    CASE sub = "Hip"      -> name \in {"leftHip", "rightHip"}
      [] sub = "Knee"     -> name \in {"leftKnee", "rightKnee"}
      [] sub = "Foot"     -> name \in {"leftFoot", "rightFoot"}
      [] sub = "Shoulder" -> name \in {"leftShoulder", "rightShoulder"}
      [] sub = "Elbow"    -> name \in {"leftElbow", "rightElbow"}
      [] sub = "Hand"     -> name \in {"leftHand", "rightHand"}
      [] sub = "mid"      -> name = "midSpine"
      [] sub = "left"     -> name \in {"leftHip", "leftKnee", "leftFoot",
                                       "leftShoulder", "leftElbow", "leftHand"}
      [] sub = "right"    -> name \in {"rightHip", "rightKnee", "rightFoot",
                                       "rightShoulder", "rightElbow", "rightHand"}
      [] OTHER            -> name = sub

\* key = `${startNode}-${endNode}`; none of the tested substrings holds "-",
\* so key.includes(sub) is an includes on one of the two names.
KeyIncludes(startNode, endNode, sub) ==
    NameIncludes(startNode, sub) \/ NameIncludes(endNode, sub)

\* getZoneKeyForEdge(startNode, endNode, t) with t = tn / td (td > 0).
\* Returns the zone key; the rules are tried in source order.
getZoneKeyForEdge(variant, startNode, endNode, tn, td) ==
    LET inc(sub) == KeyIncludes(startNode, endNode, sub) IN
    IF inc("head") \/ inc("neck") THEN "head"
    ELSE IF inc("upperSpine") THEN "thorax"
    ELSE IF inc("midSpine") THEN "abdomen"
    ELSE IF inc("lowerSpine") /\ (inc("Hip") \/ inc("mid")) THEN "pelvis"
    ELSE IF inc("Hip") /\ inc("Knee") THEN "femur"
    ELSE IF inc("Knee") /\ inc("Foot") THEN
        (IF 5 * tn < td THEN "knee"                 \* t < 0.2
         ELSE IF 20 * tn > 17 * td THEN "foot"      \* t > 0.85
         ELSE "tibia")
    ELSE IF inc("Shoulder") /\ inc("Elbow") THEN "humerus"
    ELSE IF inc("Elbow") /\ inc("Hand") THEN
        (IF 10 * tn > 7 * td THEN "hand"            \* t > 0.7
         ELSE "forearm")
    ELSE IF inc("upperSpine") /\ inc("Shoulder") THEN
        (IF variant = "p0"
         THEN (IF inc("left") THEN "left_shoulder"
               ELSE IF inc("right") THEN "right_shoulder"
               ELSE "shoulder")
         ELSE "shoulder")
    ELSE "miss"

(***************************************************************************)
(* Patient bounding model and skeleton (patient-local space).              *)
(***************************************************************************)
Vec(a, b, c) == [x |-> a, y |-> b, z |-> c]

NotReadyBounds ==
    [ready |-> FALSE, minX |-> 0, maxX |-> 0, minY |-> 0, maxY |-> 0,
     minZ |-> 0, maxZ |-> 0]

\* bounds['min' + axis.toUpperCase()], bounds['max' + axis.toUpperCase()]
BoundMin(bounds, axis) ==
    CASE axis = "x" -> bounds.minX [] axis = "y" -> bounds.minY
      [] axis = "z" -> bounds.minZ

BoundMax(bounds, axis) ==
    CASE axis = "x" -> bounds.maxX [] axis = "y" -> bounds.maxY
      [] axis = "z" -> bounds.maxZ

Extent(bounds, axis) == BoundMax(bounds, axis) - BoundMin(bounds, axis)

\* A sort that puts a key in front of the keys of equal extent.
RECURSIVE InsertDescFront(_, _, _)
InsertDescFront(sorted, axis, bounds) ==
    IF sorted = << >> THEN <<axis>>
    ELSE IF Extent(bounds, axis) >= Extent(bounds, Head(sorted))
         THEN <<axis>> \o sorted
         ELSE <<Head(sorted)>> \o InsertDescFront(Tail(sorted), axis, bounds)

\* Array.prototype.sort is stable: insert each key after the keys already
\* placed that the comparator s[b] - s[a] does not put behind it.
RECURSIVE InsertDesc(_, _, _)
InsertDesc(sorted, axis, bounds) ==
    IF sorted = << >> THEN <<axis>>
    ELSE IF Extent(bounds, axis) > Extent(bounds, Head(sorted))
         THEN <<axis>> \o sorted
         ELSE <<Head(sorted)>> \o InsertDesc(Tail(sorted), axis, bounds)

\* getInferredPatientAxes(bounds): Object.keys(s) = x, y, z sorted by extent,
\* descending.
getInferredPatientAxes(bounds) ==
    LET axes == InsertDesc(InsertDesc(InsertDesc(<< >>, "x", bounds),
                                      "y", bounds), "z", bounds)
    IN  [long |-> axes[1], width |-> axes[2], thick |-> axes[3]]

\* LANDMARKS_NORM in hundredths: <<uLong, uWidth, uThick>> * 100.
LANDMARKS_NORM(name) ==
    CASE name = "lowerSpine"    -> <<44, 50, 50>>
      [] name = "midSpine"      -> <<62, 50, 50>>
      [] name = "upperSpine"    -> <<76, 50, 50>>
      [] name = "neck"          -> <<86, 50, 50>>
      [] name = "head"          -> <<95, 50, 50>>
      [] name = "rightHip"      -> <<42, 55, 50>>
      [] name = "rightKnee"     -> <<22, 55, 50>>
      [] name = "rightFoot"     -> <<5, 55, 50>>
      [] name = "leftHip"       -> <<42, 45, 50>>
      [] name = "leftKnee"      -> <<22, 45, 50>>
      [] name = "leftFoot"      -> <<5, 45, 50>>
      [] name = "rightShoulder" -> <<76, 65, 50>>
      [] name = "rightElbow"    -> <<60, 70, 50>>
      [] name = "rightHand"     -> <<46, 72, 50>>
      [] name = "leftShoulder"  -> <<76, 35, 50>>
      [] name = "leftElbow"     -> <<60, 30, 50>>
      [] name = "leftHand"      -> <<46, 28, 50>>

\* OFFSETS_LOCAL_M in local units (1e-2 asset units); 0 = no entry.
OFFSETS_LOCAL_M(name) ==
    CASE name \in {"rightHand", "leftHand"}   -> 20
      [] name \in {"rightKnee", "leftKnee"}   -> 12
      [] name \in {"rightFoot", "leftFoot"}   -> 12
      [] name \in {"leftElbow", "rightElbow"} -> 5
      [] OTHER                                -> 0

\* min + uVal * (max - min) with uVal in hundredths.  The division is exact
\* for the boxes of the model (see BoundsExact).
Denorm(bounds, axis, u100) ==
    (100 * BoundMin(bounds, axis) + u100 * Extent(bounds, axis)) \div 100

BoundsExact(bounds) ==
    \A name \in LandmarkNames :
        LET ax == getInferredPatientAxes(bounds)
            u  == LANDMARKS_NORM(name)
        IN  /\ (u[1] * Extent(bounds, ax.long)) % 100 = 0
            /\ (u[2] * Extent(bounds, ax.width)) % 100 = 0
            /\ (u[3] * Extent(bounds, ax.thick)) % 100 = 0

\* A correction with the direction test reversed: it pulls the landmark
\* towards the midline.
LateralCorrectionInward(base, offset, bounds, axes) ==
    IF offset = 0 THEN base
    ELSE IF 2 * base[axes.width] >=
              BoundMin(bounds, axes.width) + BoundMax(bounds, axes.width)
    THEN [base EXCEPT ![axes.width] = @ - offset]
    ELSE [base EXCEPT ![axes.width] = @ + offset]

\* 2. Apply Lateral Correction: dir = (currentW >= midVal) ? 1 : -1 with
\* midVal = (midMin + midMax) / 2; local[axes.width] += offset * dir.
LateralCorrection(base, offset, bounds, axes) ==
    IF offset = 0 THEN base
    ELSE IF 2 * base[axes.width] >=
              BoundMin(bounds, axes.width) + BoundMax(bounds, axes.width)
    THEN [base EXCEPT ![axes.width] = @ + offset]
    ELSE [base EXCEPT ![axes.width] = @ - offset]

\* 1. Basic Norm -> Local: setVal(axes.long, norm.x), (axes.width, norm.y),
\* (axes.thick, norm.z).
NormToLocal(norm, bounds, axes) ==
    [a \in {"x", "y", "z"} |->
        IF a = axes.long THEN Denorm(bounds, a, norm[1])
        ELSE IF a = axes.width THEN Denorm(bounds, a, norm[2])
        ELSE Denorm(bounds, a, norm[3])]

\* landmarkLocal(name, bounds, axes)
landmarkLocal(name, bounds, axes) ==
    LateralCorrection(NormToLocal(LANDMARKS_NORM(name), bounds, axes),
                      OFFSETS_LOCAL_M(name), bounds, axes)

\* localLandmarks built in animate: every key of LANDMARKS_NORM resolved.
LandmarksFor(bounds, axes) ==
    [lowerSpine    |-> landmarkLocal("lowerSpine", bounds, axes),
     midSpine      |-> landmarkLocal("midSpine", bounds, axes),
     upperSpine    |-> landmarkLocal("upperSpine", bounds, axes),
     neck          |-> landmarkLocal("neck", bounds, axes),
     head          |-> landmarkLocal("head", bounds, axes),
     rightHip      |-> landmarkLocal("rightHip", bounds, axes),
     rightKnee     |-> landmarkLocal("rightKnee", bounds, axes),
     rightFoot     |-> landmarkLocal("rightFoot", bounds, axes),
     leftHip       |-> landmarkLocal("leftHip", bounds, axes),
     leftKnee      |-> landmarkLocal("leftKnee", bounds, axes),
     leftFoot      |-> landmarkLocal("leftFoot", bounds, axes),
     rightShoulder |-> landmarkLocal("rightShoulder", bounds, axes),
     rightElbow    |-> landmarkLocal("rightElbow", bounds, axes),
     rightHand     |-> landmarkLocal("rightHand", bounds, axes),
     leftShoulder  |-> landmarkLocal("leftShoulder", bounds, axes),
     leftElbow     |-> landmarkLocal("leftElbow", bounds, axes),
     leftHand      |-> landmarkLocal("leftHand", bounds, axes)]

LocalLandmarks(bounds) == LandmarksFor(bounds, getInferredPatientAxes(bounds))

Dot(u, v) == u.x * v.x + u.y * v.y + u.z * v.z

Sub(u, v) == Vec(u.x - v.x, u.y - v.y, u.z - v.z)

\* 1e-8 squared asset units = 1 / EpsSegDen squared local units.
EpsSegDen == 10000

\* The result of distancePointToSegment from pa = P - A, pb = P - B,
\* lenSq = |B - A|^2 and dot = pa . (B - A): h = clamp01(dot / (lenSq + 1e-8)).
\* t is returned exactly as tn / td.  d2 is returned as d2n / d2d with the
\* second-order term of the 1e-8 guard (below 1e-11 squared units) left out.
SegmentResult(pa, pb, lenSq, dot) ==
    IF dot <= 0
    THEN [tn |-> 0, td |-> 1, d2n |-> Dot(pa, pa), d2d |-> 1]
    ELSE IF dot > lenSq
    THEN [tn |-> 1, td |-> 1, d2n |-> Dot(pb, pb), d2d |-> 1]
    ELSE [tn |-> EpsSegDen * dot, td |-> EpsSegDen * lenSq + 1,
          d2n |-> Dot(pa, pa) * lenSq - dot * dot, d2d |-> lenSq]

SegmentFrom(pa, ba, pb) == SegmentResult(pa, pb, Dot(ba, ba), Dot(pa, ba))

\* distancePointToSegment(P, A, B) of App.jsx
distancePointToSegment(P, A, B) == SegmentFrom(Sub(P, A), Sub(B, A), Sub(P, B))

\* An edge loop that also replaces the best edge on an equal distance.
BetterEdgeLast(variant, i, r, best) ==
    IF best.d2d = 0 \/ ~FracLt(best.d2n, best.d2d, r.d2n, r.d2d)
    THEN [zone |-> getZoneKeyForEdge(variant, EDGES[i][1], EDGES[i][2],
                                     r.tn, r.td),
          d2n |-> r.d2n, d2d |-> r.d2d, edge |-> i]
    ELSE best

\* if (d2 < bestD2) { bestD2 = d2; bestZone = getZoneKeyForEdge(...);
\*                    bestEdgeName = ... } for edge i with distance result r;
\* `best` is {zone, d2 (as d2n/d2d, d2d = 0 for Infinity), edge}.
BetterEdge(variant, i, r, best) ==
    IF best.d2d = 0 \/ FracLt(r.d2n, r.d2d, best.d2n, best.d2d)
    THEN [zone |-> getZoneKeyForEdge(variant, EDGES[i][1], EDGES[i][2],
                                     r.tn, r.td),
          d2n |-> r.d2n, d2d |-> r.d2d, edge |-> i]
    ELSE best

\* The edge loop of classifyLocalPointBySkeleton from edge i on.
RECURSIVE ClassifyFrom(_, _, _, _, _)
ClassifyFrom(variant, i, pLocal, localLandmarks, best) ==
    IF i > Len(EDGES) THEN best
    ELSE ClassifyFrom(variant, i + 1, pLocal, localLandmarks,
             BetterEdge(variant, i,
                 distancePointToSegment(pLocal, localLandmarks[EDGES[i][1]],
                                        localLandmarks[EDGES[i][2]]),
                 best))

\* classifyLocalPointBySkeleton(pLocal, localLandmarks): bestD2 = Infinity,
\* bestZone = miss, bestEdgeName = "" (edge 0) before the loop.
classifyLocalPointBySkeleton(variant, pLocal, localLandmarks) ==
    ClassifyFrom(variant, 1, pLocal, localLandmarks,
                 [zone |-> "miss", d2n |-> 0, d2d |-> 0, edge |-> 0])

(***************************************************************************)
(* IEEE-754 values as the beam code meets them: an exact rational n/d      *)
(* (d > 0), +Infinity, -Infinity or NaN.  Any comparison with NaN is false.*)
(***************************************************************************)
Fin(n, d) ==
    IF d < 0 THEN [k |-> "fin", n |-> -n, d |-> -d]
    ELSE [k |-> "fin", n |-> n, d |-> d]

PInf == [k |-> "pinf", n |-> 0, d |-> 1]

NInf == [k |-> "ninf", n |-> 0, d |-> 1]

NaN == [k |-> "nan", n |-> 0, d |-> 1]

ExtZero == Fin(0, 1)

ExtOne == Fin(1, 1)

IsNaN(a) == a.k = "nan"

ExtGt(a, b) ==
    IF a.k = "nan" \/ b.k = "nan" THEN FALSE
    ELSE IF a.k = "pinf" THEN b.k # "pinf"
    ELSE IF a.k = "ninf" THEN FALSE
    ELSE IF b.k = "pinf" THEN FALSE
    ELSE IF b.k = "ninf" THEN TRUE
    ELSE a.n * b.d > b.n * a.d

ExtLt(a, b) == ExtGt(b, a)

ExtGe(a, b) == a.k # "nan" /\ b.k # "nan" /\ ~ExtGt(b, a)

ExtLe(a, b) == ExtGe(b, a)

\* 1.0 - a
OneMinus(a) ==
    CASE a.k = "fin"  -> Fin(a.d - a.n, a.d)
      [] a.k = "pinf" -> NInf
      [] a.k = "ninf" -> PInf
      [] a.k = "nan"  -> NaN

\* Math.max(a, b) and Math.min(a, b): NaN if either operand is NaN.
MathMax(a, b) ==
    IF IsNaN(a) \/ IsNaN(b) THEN NaN ELSE IF ExtGt(b, a) THEN b ELSE a

MathMin(a, b) ==
    IF IsNaN(a) \/ IsNaN(b) THEN NaN ELSE IF ExtLt(b, a) THEN b ELSE a

(***************************************************************************)
(* Ray / box intersection as called from animate (THREE.Ray.intersectBox,  *)
(* slab method).  The ray is origin o with direction dvec; parameters are  *)
(* kept as fractions of |dvec|, which scales every slab value by the same  *)
(* positive factor.  negZero tells that zero components of the direction   *)
(* are -0 (the reversed direction localDir * -1), so that 1/0 is -Infinity.*)
(***************************************************************************)
\* (bound - origin) * invdir for one plane
SlabT(bound, o, dcomp, negZero) ==
    IF dcomp # 0 THEN Fin(bound - o, dcomp)
    ELSE IF bound - o = 0 THEN NaN
    ELSE IF (bound - o > 0) = (~negZero) THEN PInf
    ELSE NInf

\* if (invdir >= 0) { tmin = (min - o) * invdir; tmax = (max - o) * invdir }
\* else             { tmin = (max - o) * invdir; tmax = (min - o) * invdir }
Slab(lo, hi, o, dcomp, negZero) ==
    IF dcomp > 0 \/ (dcomp = 0 /\ ~negZero)
    THEN [lo |-> SlabT(lo, o, dcomp, negZero), hi |-> SlabT(hi, o, dcomp, negZero)]
    ELSE [lo |-> SlabT(hi, o, dcomp, negZero), hi |-> SlabT(lo, o, dcomp, negZero)]

NoHit == [hit |-> FALSE, t |-> NaN]

\* The end of intersectBox: if (tmax < 0) return null;
\* return this.at(tmin >= 0 ? tmin : tmax, target).
BoxResult(tmin, tmax) ==
    IF ExtLt(tmax, ExtZero) THEN NoHit
    ELSE [hit |-> TRUE, t |-> IF ExtGe(tmin, ExtZero) THEN tmin ELSE tmax]

\* Narrowing [tmin, tmax] by one more slab s, or null when they are disjoint.
BoxZ(tmin, tmax, s) ==
    IF ExtGt(tmin, s.hi) \/ ExtGt(s.lo, tmax) THEN NoHit
    ELSE BoxResult(IF ExtGt(s.lo, tmin) \/ IsNaN(tmin) THEN s.lo ELSE tmin,
                   IF ExtLt(s.hi, tmax) \/ IsNaN(tmax) THEN s.hi ELSE tmax)

BoxXY(sx, sy, sz) ==
    IF ExtGt(sx.lo, sy.hi) \/ ExtGt(sy.lo, sx.hi) THEN NoHit
    ELSE BoxZ(IF ExtGt(sy.lo, sx.lo) \/ IsNaN(sx.lo) THEN sy.lo ELSE sx.lo,
              IF ExtLt(sy.hi, sx.hi) \/ IsNaN(sx.hi) THEN sy.hi ELSE sx.hi,
              sz)

\* rayLocal.intersectBox(localBox, target): null, or the point at parameter t.
intersectBox(o, dvec, negZero, bounds) ==
    BoxXY(Slab(bounds.minX, bounds.maxX, o.x, dvec.x, negZero),
          Slab(bounds.minY, bounds.maxY, o.y, dvec.y, negZero),
          Slab(bounds.minZ, bounds.maxZ, o.z, dvec.z, negZero))

\* point.distanceTo(origin) / localSid for the point at parameter t of a ray
\* along dvec: |t| when finite; a point at an infinite parameter has NaN
\* coordinates wherever the direction is 0.
DistFrac(t, dvec) ==
    CASE t.k = "fin" -> Fin(Abs(t.n), t.d)
      [] t.k = "nan" -> NaN
      [] OTHER       -> IF dvec.x = 0 \/ dvec.y = 0 \/ dvec.z = 0 THEN NaN ELSE PInf

\* A slip that takes any forward intersection as a hit, also one beyond the
\* detector.
EntryAnyDistance(tEntry) == TRUE

\* if (distEntry <= localSid)
EntryWithinSid(tEntry) == ExtLe(tEntry, ExtOne)

\* tEntry, tExit, tStart, tEnd and the sampling test, once the entry has
\* been accepted; exitFrac is distExitFromDet / localSid.
IntervalFrom(tEntry, exitHit, exitFrac) ==
    [hitEntry |-> TRUE, isHitting |-> TRUE, hitExit |-> exitHit,
     tStart |-> MathMax(ExtZero, tEntry),
     tEnd |-> MathMin(ExtOne, OneMinus(exitFrac)),
     sampled |-> ExtGt(MathMin(ExtOne, OneMinus(exitFrac)),
                       MathMax(ExtZero, tEntry))]

\* The reversed ray from the detector; if (!hitExit) exitLocal.copy(entryLocal).
ExitOf(tEntry, exit, back) ==
    IntervalFrom(tEntry, exit.hit,
                 IF exit.hit THEN DistFrac(exit.t, back) ELSE OneMinus(tEntry))

EntryOf(entry, tEntry, localV1, localV2, bounds) ==
    IF ~(entry.hit /\ EntryWithinSid(tEntry))
    THEN [hitEntry |-> entry.hit, isHitting |-> FALSE, hitExit |-> FALSE,
          tStart |-> NaN, tEnd |-> NaN, sampled |-> FALSE]
    ELSE ExitOf(tEntry,
                intersectBox(localV2, Sub(localV1, localV2), TRUE, bounds),
                Sub(localV1, localV2))

BeamFrom(entry, localDir, localV1, localV2, bounds) ==
    EntryOf(entry, DistFrac(entry.t, localDir), localV1, localV2, bounds)

\* The hit / interval block of animate, for source localV1 and detector
\* localV2 in patient-local space:
\*   hitEntry, isHitting, hitExit, tStart, tEnd, and whether the
\*   sampling branch (tEnd > tStart) is taken.
BeamInterval(localV1, localV2, bounds) ==
    BeamFrom(intersectBox(localV1, Sub(localV2, localV1), FALSE, bounds),
             Sub(localV2, localV1), localV1, localV2, bounds)

(***************************************************************************)
(* Multi-point sampling and the weighted vote.                             *)
(***************************************************************************)
SAMPLES == 9

\* Fixed-point unit of a vote weight: 1.0 / (d2 + 1e-4) in squared asset
\* units is 1e4 / (d2 + 1) in squared local units; weights are carried as
\* WeightScale / (d2 + 1), exact whenever d2 + 1 divides WeightScale
\* (2 * 41 * 61 * 101) and rounded down to one part in WeightScale otherwise.
WeightScale == 505202

\* A vote that counts samples instead of weighting them by proximity.
WeightCount(d2n, d2d) == WeightScale

\* weight = 1.0 / (res.d2 + 1e-4) for d2 = d2n / d2d
Weight(d2n, d2d) == (WeightScale * d2d) \div (d2n + d2d)

\* counts[key] = (counts[key] || 0) + weight; counts is kept as the sequence
\* of its keys in insertion order, the order `for (key in counts)` visits.
AddVote(counts, key, w) ==
    IF \E j \in 1..Len(counts) : counts[j].key = key
    THEN [j \in 1..Len(counts) |->
            IF counts[j].key = key
            THEN [key |-> key, w |-> counts[j].w + w] ELSE counts[j]]
    ELSE Append(counts, [key |-> key, w |-> w])

\* The voting loop over the classified samples (res.zone.key, res.d2).
RECURSIVE Tally(_, _, _)
Tally(samples, i, counts) ==
    IF i > Len(samples) THEN counts
    ELSE Tally(samples, i + 1,
               AddVote(counts, samples[i].zone,
                       Weight(samples[i].d2n, samples[i].d2d)))

\* A winner loop that lets a later key take over on an equal weight.
RECURSIVE PickWinnerLast(_, _, _, _)
PickWinnerLast(counts, j, bestKey, bestWeight) ==
    IF j > Len(counts) THEN bestKey
    ELSE IF counts[j].w >= bestWeight
         THEN PickWinnerLast(counts, j + 1, counts[j].key, counts[j].w)
         ELSE PickWinnerLast(counts, j + 1, bestKey, bestWeight)

\* A winner loop with the comparison the wrong way round: no weight is below
\* the initial bestWeight of -1, so the initial 'miss' is returned.
RECURSIVE PickWinnerBelow(_, _, _, _)
PickWinnerBelow(counts, j, bestKey, bestWeight) ==
    IF j > Len(counts) THEN bestKey
    ELSE IF counts[j].w < bestWeight
         THEN PickWinnerBelow(counts, j + 1, counts[j].key, counts[j].w)
         ELSE PickWinnerBelow(counts, j + 1, bestKey, bestWeight)

\* Pick Winner: bestKey = 'miss', bestWeight = -1, strict > in key order.
RECURSIVE PickWinner(_, _, _, _)
PickWinner(counts, j, bestKey, bestWeight) ==
    IF j > Len(counts) THEN bestKey
    ELSE IF counts[j].w > bestWeight
         THEN PickWinner(counts, j + 1, counts[j].key, counts[j].w)
         ELSE PickWinner(counts, j + 1, bestKey, bestWeight)

VoteWinner(samples) == PickWinner(Tally(samples, 1, << >>), 1, "miss", -1)

\* localV1 + (localV2 - localV1) * num / den, rounded down to the lattice.
PointAt(localV1, localV2, num, den) ==
    Vec(localV1.x + ((localV2.x - localV1.x) * num) \div den,
        localV1.y + ((localV2.y - localV1.y) * num) \div den,
        localV1.z + ((localV2.z - localV1.z) * num) \div den)

\* A sample loop that divides by SAMPLES: the last sample stops short of
\* tEnd.
SampleTShort(tStart, tEnd, i) ==
    Fin(SAMPLES * tStart.n * tEnd.d
            + i * (tEnd.n * tStart.d - tStart.n * tEnd.d),
        SAMPLES * tStart.d * tEnd.d)

\* t = (SAMPLES > 1) ? tStart + (tEnd - tStart) * (i / (SAMPLES - 1))
\*                     : (tStart + tEnd) * 0.5, as a fraction.
SampleT(tStart, tEnd, i) ==
    IF SAMPLES > 1
    THEN Fin((SAMPLES - 1) * tStart.n * tEnd.d
                 + i * (tEnd.n * tStart.d - tStart.n * tEnd.d),
             (SAMPLES - 1) * tStart.d * tEnd.d)
    ELSE Fin(tStart.n * tEnd.d + tEnd.n * tStart.d, 2 * tStart.d * tEnd.d)

\* sampleLocal = localDir * (t * localSid) + localV1, rounded down to the
\* lattice of local units.
SamplePointAt(localV1, localV2, t) == PointAt(localV1, localV2, t.n, t.d)

SamplePoint(localV1, localV2, tStart, tEnd, i) ==
    SamplePointAt(localV1, localV2, SampleT(tStart, tEnd, i))

\* One pass of the sample loop: res of classifyLocalPointBySkeleton for the
\* sample at fraction t, kept with t.
SampleAt(variant, localV1, localV2, t, lm) ==
    [t |-> t] @@ classifyLocalPointBySkeleton(variant,
                     SamplePointAt(localV1, localV2, t), lm)

\* for (let i = 0; i < SAMPLES; i++): the classified samples, in order.
RECURSIVE SampleResults(_, _, _, _, _, _, _)
SampleResults(variant, localV1, localV2, tStart, tEnd, lm, i) ==
    IF i >= SAMPLES THEN << >>
    ELSE <<SampleAt(variant, localV1, localV2, SampleT(tStart, tEnd, i), lm)>>
         \o SampleResults(variant, localV1, localV2, tStart, tEnd, lm, i + 1)

\* The vote over the classified samples and the result of the tick.
VotedInterval(variant, iv, samples) ==
    [zone |-> ZoneOrMiss(variant, VoteWinner(samples)),
     isHitting |-> TRUE, hitEntry |-> TRUE,
     tStart |-> iv.tStart, tEnd |-> iv.tEnd, sampled |-> TRUE,
     samples |-> samples]

\* zoneResult and isHitting for the interval iv of the beam.
ClassifyInterval(variant, bounds, localV1, localV2, iv) ==
    IF ~iv.sampled
    THEN [zone |-> ZONE_DEFS("miss"), isHitting |-> iv.isHitting,
          hitEntry |-> iv.hitEntry,
          tStart |-> iv.tStart, tEnd |-> iv.tEnd, sampled |-> FALSE,
          samples |-> << >>]
    ELSE VotedInterval(variant, iv,
                       SampleResults(variant, localV1, localV2, iv.tStart,
                                     iv.tEnd, LocalLandmarks(bounds), 0))

\* The hit / interval / sampling / vote block of animate for source localV1
\* and detector localV2 in patient-local space: zoneResult, isHitting and
\* the locals tStart, tEnd and whether sampling ran.
ClassifyBeam(variant, bounds, localV1, localV2) ==
    ClassifyInterval(variant, bounds, localV1, localV2,
                     BeamInterval(localV1, localV2, bounds))

(***************************************************************************)
(* ControlState and the kinematic chain.                                   *)
(***************************************************************************)
ControlKeys == {"cart_x", "cart_z", "lift", "orbital_slide", "wig_wag",
                "column_rot"}

\* CONTROL_SPECS of constants.js: limits and step (1e-5 m, millidegrees).
CONTROL_SPECS(key) ==
    CASE key = "cart_x"        -> [min |-> 80000,   max |-> 250000, step |-> 2000]
      [] key = "cart_z"        -> [min |-> -150000, max |-> 150000, step |-> 2000]
      [] key = "lift"          -> [min |-> -50000,  max |-> 5000,   step |-> 200]
      [] key = "orbital_slide" -> [min |-> -100000, max |-> 100000, step |-> 200]
      [] key = "wig_wag"       -> [min |-> -23000,  max |-> 23000,  step |-> 200]
      [] key = "column_rot"    -> [min |-> -86000,  max |-> 86000,  step |-> 1000]

\* useState({ lift: -0.178, column_rot: 0, wig_wag: 0, orbital_slide: 0,
\*            cart_x: 1.700, cart_z: 0.600 })
DefaultControls ==
    [lift |-> -17800, column_rot |-> 0, wig_wag |-> 0, orbital_slide |-> 0,
     cart_x |-> 170000, cart_z |-> 60000]

\* sin of quarter-turn angles 0, 10, ..., 90 degrees, in thousandths.
SinTab == <<0, 174, 342, 500, 643, 766, 866, 940, 985, 1000>>

\* Math.sin for an angle in millidegrees, in thousandths: the table above,
\* interpolated linearly (exact at multiples of 90 degrees).
SinQ(a) ==
    LET i == a \div 10000
        f == a % 10000
    IN  IF i >= 9 THEN 1000
        ELSE SinTab[i + 1] + ((SinTab[i + 2] - SinTab[i + 1]) * f) \div 10000

SinMd(a) ==
    LET r == a % 360000
    IN  IF r <= 90000 THEN SinQ(r)
        ELSE IF r <= 180000 THEN SinQ(180000 - r)
        ELSE IF r <= 270000 THEN -SinQ(r - 180000)
        ELSE -SinQ(360000 - r)

CosMd(a) == SinMd(a + 90000)

\* getWorldPosition of an anchor mounted h above the centre of the C
\* (detAnchor: cRadius 0.8 - 0.3 = +0.5 m; srcAnchor: -0.8 + 0.26 = -0.54 m),
\* through cSlide (rotation.x = orbital_slide, z = cRadius), wigWag
\* (rotation.z = wig_wag, z = 0.25), shoulder (z = 0.2), lift
\* (y = 1.20 + lift), colRot (rotation.y = column_rot), colBase (0, 0.6,
\* 0.45) and cartRoot (rotation.y = -PI/2, position (cart_x, 0, cart_z)).
AnchorWorld(c, h) ==
    LET hc == (h * CosMd(c.orbital_slide)) \div 1000
        hs == (h * SinMd(c.orbital_slide)) \div 1000
        \* wigWag frame
        x2 == (-hc * SinMd(c.wig_wag)) \div 1000
        y2 == (hc * CosMd(c.wig_wag)) \div 1000
        z2 == hs + 80000
        \* colRot frame
        y3 == y2 + 120000 + c.lift
        z3 == z2 + 45000
        \* cartRoot frame
        x4 == (x2 * CosMd(c.column_rot) + z3 * SinMd(c.column_rot)) \div 1000
        y4 == y3 + 60000
        z4 == (z3 * CosMd(c.column_rot) - x2 * SinMd(c.column_rot)) \div 1000
              + 45000
    IN  Vec(c.cart_x - z4, y4, c.cart_z + x4)

DetAnchorHeight == 50000

SrcAnchorHeight == -54000

\* patientModel.worldToLocal(v): the model is scaled by 1.7 / maxDimP (when
\* maxDimP > 0), rotated by Euler(-PI/2, 0, PI) and placed at (0, 1.5, 0),
\* so local = (-wx, wz, wy - 1.5) / scale, rounded down to local units.
WorldToLocal(w, bounds) ==
    LET maxDimP == Max(Extent(bounds, "x"),
                       Max(Extent(bounds, "y"), Extent(bounds, "z")))
        num == IF maxDimP > 0 THEN maxDimP ELSE 170
    IN  Vec((-w.x * num) \div 170000,
            (w.z * num) \div 170000,
            ((w.y - 150000) * num) \div 170000)

(***************************************************************************)
(* Bounds of the model and the inputs it draws.                            *)
(***************************************************************************)
\* performance.now() stays below MaxNow; frames arrive FrameDts apart.
MaxNow == 220

FrameDts == {100, 110}

\* The panel loop runs at most MaxMoveTicks movement ticks; variant 2 sees
\* t - lastT among MoveDts (milliseconds): a frame late enough for the
\* 50 ms clamp of dt to act.
MaxMoveTicks == 1

MoveDts == {70}

\* The control the operator moves in the model: the translation along the
\* patient, which the first panel clamps and the second does not.
MoveKeys == {"cart_x"}

\* Bounding box of the patient asset as Box3.setFromObject returns it
\* (local units; long axis y, width x, thickness z).
PatientBox ==
    [ready |-> TRUE, minX |-> -100, maxX |-> 100, minY |-> -150,
     maxY |-> 150, minZ |-> -8, maxZ |-> 8]

\* Control states the panel can bring the device to, from which the model
\* starts: the defaults; the beam 1 unit inside the lateral face of the box;
\* the C rotated to 90 degrees with the detector inside the box and the cart
\* at its longitudinal limit.
EdgeControls == [DefaultControls EXCEPT !.cart_x = 113000]

LateralControls ==
    [DefaultControls EXCEPT !.orbital_slide = 90090, !.cart_x = 250000,
                            !.lift = -30000, !.cart_z = 0]

InitControls == {DefaultControls, EdgeControls, LateralControls}

NoMove == [key |-> "none", dir |-> 0]

NoShot == [pending |-> FALSE]

NoXray == [taken |-> FALSE]

NoFn == [op |-> "none"]

NoFrame ==
    [classified |-> FALSE, error |-> FALSE, pipelineError |-> FALSE,
     hitEntry |-> FALSE,
     isHitting |-> FALSE, tStart |-> NaN, tEnd |-> NaN, sampled |-> FALSE]

NoHist == [shotHit |-> FALSE, shotKey |-> "miss", tickedSinceSettle |-> FALSE]

(***************************************************************************)
(* Init: the state after App's first render and effect.                    *)
(***************************************************************************)
Init ==
    /\ appVariant \in {"app", "p0"}
    /\ panelVariant \in {1, 2}
    /\ mounted = TRUE
    /\ loadState = [st |-> "pending", outcome |-> "none",
                    mountedAtSettle |-> FALSE]
    /\ patientBounds = NotReadyBounds
    /\ patientModel = FALSE
    /\ sceneHasPatient = FALSE
    /\ modelLoading = TRUE
    /\ controls \in InitControls
    /\ joints = controls
    /\ intervalRef = NoMove
    /\ beamActive = FALSE
    /\ shot = NoShot
    /\ lastXray = NoXray
    /\ now = 0
    /\ lastDebugUpdate = 0
    /\ beamZoneKey = "miss"
    /\ beamRegion = "WAITING FOR PATIENT..."
    /\ beamHit = FALSE
    /\ reqId = "scheduled"
    /\ frame = NoFrame
    /\ moveTicks = 0
    /\ hist = NoHist
    /\ fn = NoFn

(***************************************************************************)
(* Asset loading and teardown.                                             *)
(***************************************************************************)
\* A handler that forgets the guard.
HandlerRunsAlways(isMounted) == TRUE

\* if (!mounted) return;
HandlerRuns(isMounted) == isMounted

\* Which assets must have loaded for the patient branch to run: App.jsx
\* chains on Promise.all (any rejection goes to catch), part_000 on
\* Promise.allSettled (the patient branch needs only the patient).
PatientBranchRuns(variant, outcome) ==
    IF variant = "app" THEN outcome = "ok" ELSE outcome # "patientFail"

\* A loading flag the failure path leaves as it was.
ModelLoadingStuck(prev) == prev

\* setModelLoading(false) at the end of then / catch
ModelLoadingAfterSettle(prev) == FALSE

\* The combined asset promise settles and its handler runs.
LoadSettle(outcome) ==
    /\ loadState.st = "pending"
    /\ loadState' = [st |-> "settled", outcome |-> outcome,
                     mountedAtSettle |-> mounted]
    /\ hist' = [hist EXCEPT !.tickedSinceSettle = FALSE]
    /\ IF ~HandlerRuns(mounted)
       THEN UNCHANGED <<patientBounds, patientModel, sceneHasPatient,
                        modelLoading>>
       ELSE /\ IF PatientBranchRuns(appVariant, outcome)
               THEN /\ patientBounds' = PatientBox
                    /\ patientModel' = TRUE
                    /\ sceneHasPatient' = TRUE
               ELSE UNCHANGED <<patientBounds, patientModel, sceneHasPatient>>
            /\ modelLoading' = ModelLoadingAfterSettle(modelLoading)
    /\ UNCHANGED <<appVariant, panelVariant, mounted, controls, joints, intervalRef,
                   beamActive, shot, lastXray, now, lastDebugUpdate,
                   beamZoneKey, beamRegion, beamHit, reqId, frame, moveTicks,
                   fn>>

\* Effect cleanup: mounted = false; cancelAnimationFrame(reqId).  The panel
\* of variant 2 stops its loop in its own cleanup.
Unmount ==
    /\ mounted
    /\ mounted' = FALSE
    /\ reqId' = "cancelled"
    /\ intervalRef' = IF panelVariant = 2 THEN NoMove ELSE intervalRef
    /\ UNCHANGED <<appVariant, panelVariant, loadState, patientBounds,
                   patientModel, sceneHasPatient, modelLoading, controls, joints,
                   beamActive, shot, lastXray, now, lastDebugUpdate,
                   beamZoneKey, beamRegion, beamHit, frame, moveTicks, hist,
                   fn>>

(***************************************************************************)
(* The animate loop: throttle, classification, publication.                *)
(***************************************************************************)
\* A gate that also opens at exactly 100 ms.
GateAtLeast(t, last) == t - last >= 100

\* if (now - lastDebugUpdateRef.current > 100)
GatePassed(t, last) == t - last > 100

\* A slip that forgets the readiness guard.
BoundsAlwaysUsable(model, bounds) == TRUE

\* if (patientModelRef.current && bounds.ready)
BoundsUsable(model, bounds) == model /\ bounds.ready

\* The classification block for the current joint state.  Past the guard the
\* block dereferences patientModelRef.current: on null that is a TypeError,
\* which animate's catch turns into a cancelled loop.
ClassifyTick(variant, model, bounds, c) ==
    IF ~BoundsUsable(model, bounds)
    THEN [error |-> FALSE, zone |-> ZONE_DEFS("miss"), isHitting |-> FALSE,
          hitEntry |-> FALSE, tStart |-> NaN, tEnd |-> NaN, sampled |-> FALSE]
    ELSE IF ~model
    THEN [error |-> TRUE, zone |-> ZONE_DEFS("miss"), isHitting |-> FALSE,
          hitEntry |-> FALSE, tStart |-> NaN, tEnd |-> NaN, sampled |-> FALSE]
    ELSE [error |-> FALSE] @@
         ClassifyBeam(variant, bounds,
             WorldToLocal(AnchorWorld(c, SrcAnchorHeight), bounds),
             WorldToLocal(AnchorWorld(c, DetAnchorHeight), bounds))

\* A catch that logs the error and leaves the requested frame in place.
PublishNoCancel(r, renderThrows) ==
    /\ frame' = [classified |-> TRUE, error |-> (r.error \/ renderThrows),
                 pipelineError |-> r.error,
                 hitEntry |-> r.hitEntry, isHitting |-> r.isHitting,
                 tStart |-> r.tStart, tEnd |-> r.tEnd, sampled |-> r.sampled]
    /\ IF r.error
       THEN UNCHANGED <<beamZoneKey, beamRegion, beamHit, reqId>>
       ELSE /\ beamZoneKey' = r.zone.key
            /\ beamRegion' = r.zone.label
            /\ beamHit' = r.isHitting
            /\ UNCHANGED reqId

\* An update that stores the zone and forgets the hit flag.
PublishKeepsHit(r, renderThrows) ==
    /\ frame' = [classified |-> TRUE, error |-> (r.error \/ renderThrows),
                 pipelineError |-> r.error,
                 hitEntry |-> r.hitEntry, isHitting |-> r.isHitting,
                 tStart |-> r.tStart, tEnd |-> r.tEnd, sampled |-> r.sampled]
    /\ IF r.error
       THEN /\ reqId' = "cancelled"
            /\ UNCHANGED <<beamZoneKey, beamRegion, beamHit>>
       ELSE /\ beamZoneKey' = r.zone.key
            /\ beamRegion' = r.zone.label
            /\ UNCHANGED beamHit
            /\ reqId' = IF renderThrows THEN "cancelled" ELSE reqId

\* Update Refs & UI with the tick's result r, then renderer.render; when
\* the block or the render threw,
\* catch (err) { console.error; cancelAnimationFrame(reqId) }.
Publish(r, renderThrows) ==
    /\ frame' = [classified |-> TRUE, error |-> (r.error \/ renderThrows),
                 pipelineError |-> r.error,
                 hitEntry |-> r.hitEntry, isHitting |-> r.isHitting,
                 tStart |-> r.tStart, tEnd |-> r.tEnd, sampled |-> r.sampled]
    /\ IF r.error
       THEN /\ reqId' = "cancelled"
            /\ UNCHANGED <<beamZoneKey, beamRegion, beamHit>>
       ELSE /\ beamZoneKey' = r.zone.key
            /\ beamRegion' = r.zone.label
            /\ beamHit' = r.isHitting
            /\ reqId' = IF renderThrows THEN "cancelled" ELSE reqId

\* One run of animate, dt after the previous frame: the next frame is
\* requested first, then the try block runs.  throwAt tells where the block
\* throws: "update" in orbit.update() before anything else, "render" in
\* renderer.render after the results were published, "none" nowhere.
AnimateFrame(dt, throwAt) ==
    /\ reqId = "scheduled"
    /\ now + dt <= MaxNow
    /\ now' = now + dt
    /\ IF throwAt = "update"
       THEN /\ frame' = [frame EXCEPT !.classified = FALSE, !.error = TRUE]
            /\ reqId' = "cancelled"
            /\ UNCHANGED <<lastDebugUpdate, beamZoneKey, beamRegion, beamHit,
                           hist>>
       ELSE IF GatePassed(now + dt, lastDebugUpdate)
       THEN /\ lastDebugUpdate' = now + dt
            /\ hist' = [hist EXCEPT !.tickedSinceSettle =
                                       (loadState.st = "settled")]
            /\ Publish(ClassifyTick(appVariant, patientModel, patientBounds,
                                    joints), throwAt = "render")
       ELSE /\ frame' = [frame EXCEPT !.classified = FALSE,
                                      !.error = (throwAt = "render")]
            /\ reqId' = IF throwAt = "render" THEN "cancelled" ELSE reqId
            /\ UNCHANGED <<lastDebugUpdate, beamZoneKey, beamRegion, beamHit,
                           hist>>
    /\ UNCHANGED <<appVariant, panelVariant, mounted, loadState, patientBounds,
                   patientModel, sceneHasPatient, modelLoading, controls, joints,
                   intervalRef, beamActive, shot, lastXray, moveTicks, fn>>

(***************************************************************************)
(* ControllerPanel (part_001): hold-to-move loops.                         *)
(***************************************************************************)
Clamp(v, lo, hi) == Max(lo, Min(hi, v))

\* bindBtn(key, delta) of variant 1: 0.01 m, 0.002 m, 0.005 rad, 0.01 rad.
Buttons1 ==
    {<<"cart_x", -1000>>, <<"cart_x", 1000>>, <<"cart_z", 1000>>,
     <<"cart_z", -1000>>, <<"orbital_slide", -286>>, <<"orbital_slide", 286>>,
     <<"wig_wag", 286>>, <<"wig_wag", -286>>, <<"lift", 200>>,
     <<"lift", -200>>, <<"column_rot", -573>>, <<"column_rot", 573>>}

\* bindBtn(key, dir) of variant 2
Buttons2 == {<<k, d>> : k \in ControlKeys, d \in {-1, 1}}

Buttons(variant) == IF variant = 1 THEN Buttons1 ELSE Buttons2

\* Variant 1, setControls(prev => ...): next[key] += delta, then the three
\* hard-coded translation clamps; rotations are left unchecked.
PanelTick1(prev, key, delta) ==
    LET raw == prev[key] + delta
    IN  [prev EXCEPT ![key] =
            CASE key = "cart_x" -> Clamp(raw, 80000, 250000)
              [] key = "cart_z" -> Clamp(raw, -150000, 150000)
              [] key = "lift"   -> Clamp(raw, -50000, 5000)
              [] OTHER          -> raw]

\* Variant 2, tick(t): dt = Math.min(0.05, (t - lastT) / 1000);
\* next[key] += CONTROL_SPECS[key].step * 60 * dir * dt; no clamp.
PanelTick2(prev, key, dir, elapsed) ==
    LET dt == Min(50, elapsed)
    IN  [prev EXCEPT ![key] =
            @ + (CONTROL_SPECS(key).step * 60 * dir * dt) \div 1000]

\* startMove(key, delta | dir): returns at once while exposing.
StartMove(key, d) ==
    /\ mounted
    /\ ~beamActive
    /\ moveTicks < MaxMoveTicks
    /\ <<key, d>> \in Buttons(panelVariant)
    /\ key \in MoveKeys
    /\ intervalRef' = [key |-> key, dir |-> d]
    /\ UNCHANGED <<appVariant, panelVariant, mounted, loadState, patientBounds,
                   patientModel, sceneHasPatient, modelLoading, controls, joints,
                   beamActive, shot, lastXray, now, lastDebugUpdate,
                   beamZoneKey, beamRegion, beamHit, reqId, frame, moveTicks,
                   hist, fn>>

\* stopMove()
StopMove ==
    /\ intervalRef # NoMove
    /\ intervalRef' = NoMove
    /\ UNCHANGED <<appVariant, panelVariant, mounted, loadState, patientBounds,
                   patientModel, sceneHasPatient, modelLoading, controls, joints,
                   beamActive, shot, lastXray, now, lastDebugUpdate,
                   beamZoneKey, beamRegion, beamHit, reqId, frame, moveTicks,
                   hist, fn>>

\* One frame of the running loop (animate of variant 1, tick of variant 2),
\* up to the commit of the new ControlState; the loop re-arms itself and
\* does not look at beamActive.  React runs the effect of the previous
\* commit, if it is still pending, before it renders the update.
MoveTick(elapsed) ==
    /\ mounted
    /\ intervalRef # NoMove
    /\ moveTicks < MaxMoveTicks
    /\ controls' = IF panelVariant = 1
                   THEN PanelTick1(controls, intervalRef.key, intervalRef.dir)
                   ELSE PanelTick2(controls, intervalRef.key, intervalRef.dir,
                                   elapsed)
    /\ joints' = controls
    /\ moveTicks' = moveTicks + 1
    /\ UNCHANGED <<appVariant, panelVariant, mounted, loadState, patientBounds,
                   patientModel, sceneHasPatient, modelLoading, intervalRef,
                   beamActive, shot, lastXray, now, lastDebugUpdate,
                   beamZoneKey, beamRegion, beamHit, reqId, frame, hist, fn>>

\* useEffect(() => { liftRef...position.y = 1.20 + controls.lift; ... },
\* [controls]): the passive effect of a commit writes the committed
\* ControlState to the joints; it runs after the commit, and an animation
\* frame can come in between.
ApplyControls ==
    /\ mounted
    /\ joints # controls
    /\ joints' = controls
    /\ UNCHANGED <<appVariant, panelVariant, mounted, loadState, patientBounds,
                   patientModel, sceneHasPatient, modelLoading, controls,
                   intervalRef, beamActive, shot, lastXray, now,
                   lastDebugUpdate, beamZoneKey, beamRegion, beamHit, reqId,
                   frame, moveTicks, hist, fn>>

(***************************************************************************)
(* Exposure: handleTakeXray and its 450 ms timer.                          *)
(***************************************************************************)
\* A timer that looks the zone up when it fires.
TimerRegionKeyLive(pendingShot, liveHit, liveKey) ==
    IF liveHit THEN liveKey ELSE "miss"

\* The timer callback uses regionKeyAtShot captured by its closure.
TimerRegionKey(pendingShot, liveHit, liveKey) == pendingShot.regionKeyAtShot

\* getAnatomyZone(cart_x): the legacy zone from the cart position alone
\* (thresholds 1.2, 1.7, 2.1 and 2.3 m).
getAnatomyZone(cart_x) ==
    IF cart_x < 120000 THEN ZONE_DEFS("head")
    ELSE IF cart_x < 170000 THEN ZONE_DEFS("thorax")
    ELSE IF cart_x < 210000 THEN ZONE_DEFS("abdomen")
    ELSE IF cart_x < 230000 THEN ZONE_DEFS("femur")
    ELSE ZONE_DEFS("tibia")

\* An image generator that takes the zone from cart_x whatever the override.
generateLegacyXray(variant, atlasReady, currentControls, zoneKeyOverride) ==
    [taken |-> TRUE, zoneKeyOverride |-> zoneKeyOverride,
     controls |-> currentControls,
     zone |-> getAnatomyZone(currentControls.cart_x).key,
     label |-> getAnatomyZone(currentControls.cart_x).label,
     legacy |-> TRUE]

\* generateRealisticXray(currentControls, zoneKeyOverride).  App.jsx draws
\* the zone ZONE_DEFS[zoneKeyOverride] || ZONE_DEFS.miss when the override is
\* truthy and getAnatomyZone(cart_x) otherwise ("" stands for the falsy
\* overrides null and ''), and sets the anatomy label to the label of that
\* zone.  part_000 returns a noise image and sets no label (label "") while
\* the skeleton atlas is not loaded; with the atlas it crops the atlas from
\* currentControls, does not read the override and sets the label of
\* getAnatomyZone(cart_x).  `legacy` tells whether getAnatomyZone was called.
generateRealisticXray(variant, atlasReady, currentControls, zoneKeyOverride) ==
    [taken |-> TRUE, zoneKeyOverride |-> zoneKeyOverride,
     controls |-> currentControls,
     zone |-> IF variant = "app"
              THEN (IF zoneKeyOverride # ""
                    THEN ZoneOrMiss(variant, zoneKeyOverride).key
                    ELSE getAnatomyZone(currentControls.cart_x).key)
              ELSE IF atlasReady THEN "atlas" ELSE "noise",
     label |-> IF variant = "app"
               THEN (IF zoneKeyOverride # ""
                     THEN ZoneOrMiss(variant, zoneKeyOverride).label
                     ELSE getAnatomyZone(currentControls.cart_x).label)
               ELSE IF atlasReady
                    THEN getAnatomyZone(currentControls.cart_x).label
                    ELSE "",
     legacy |-> IF variant = "app" THEN zoneKeyOverride = "" ELSE atlasReady]

\* handleTakeXray (the expose button is disabled while beamActive)
TakeXray ==
    /\ mounted
    /\ ~beamActive
    /\ shot' = [pending |-> TRUE, shotControls |-> controls,
                regionKeyAtShot |-> IF beamHit THEN beamZoneKey ELSE "miss"]
    /\ beamActive' = TRUE
    /\ hist' = [hist EXCEPT !.shotHit = beamHit, !.shotKey = beamZoneKey]
    /\ UNCHANGED <<appVariant, panelVariant, mounted, loadState, patientBounds,
                   patientModel, sceneHasPatient, modelLoading, controls, joints,
                   intervalRef, lastXray, now, lastDebugUpdate, beamZoneKey,
                   beamRegion, beamHit, reqId, frame, moveTicks, fn>>

\* A timer callback without the try / catch: a throw of the image
\* generation leaves the callback before setBeamActive(false).
TimerFireNoCatch(throws) ==
    /\ shot.pending
    /\ shot' = NoShot
    /\ IF mounted /\ ~throws
       THEN /\ \E atlasReady \in BOOLEAN :
                  lastXray' = generateRealisticXray(appVariant, atlasReady,
                                  shot.shotControls,
                                  TimerRegionKey(shot, beamHit, beamZoneKey))
            /\ beamActive' = FALSE
       ELSE UNCHANGED <<lastXray, beamActive>>
    /\ UNCHANGED <<appVariant, panelVariant, mounted, loadState, patientBounds,
                   patientModel, sceneHasPatient, modelLoading, controls, joints,
                   intervalRef, now, lastDebugUpdate, beamZoneKey, beamRegion,
                   beamHit, reqId, frame, moveTicks, hist, fn>>

\* The setTimeout callback: try { setLastXray(generateRealisticXray(
\* shotControls, regionKeyAtShot)) } catch { log }; setBeamActive(false).
\* `throws` tells whether the image generation throws (a canvas without a
\* 2d context, a failing toDataURL).  In part_000 the skeleton atlas may or
\* may not have finished loading when the callback runs (atlasReady).  State
\* updates of an unmounted component are dropped.
TimerFire(throws) ==
    /\ shot.pending
    /\ shot' = NoShot
    /\ IF mounted
       THEN /\ \E atlasReady \in BOOLEAN :
                  lastXray' = IF throws THEN lastXray
                              ELSE generateRealisticXray(appVariant,
                                       atlasReady, shot.shotControls,
                                       TimerRegionKey(shot, beamHit,
                                                      beamZoneKey))
            /\ beamActive' = FALSE
       ELSE UNCHANGED <<lastXray, beamActive>>
    /\ UNCHANGED <<appVariant, panelVariant, mounted, loadState, patientBounds,
                   patientModel, sceneHasPatient, modelLoading, controls, joints,
                   intervalRef, now, lastDebugUpdate, beamZoneKey, beamRegion,
                   beamHit, reqId, frame, moveTicks, hist, fn>>

LoadOutcomes == {"ok", "patientFail", "otherFail"}

Next ==
    \/ \E outcome \in LoadOutcomes : LoadSettle(outcome)
    \/ Unmount
    \/ \E dt \in FrameDts, throwAt \in {"none", "update", "render"} :
          AnimateFrame(dt, throwAt)
    \/ \E b \in Buttons1 \cup Buttons2 : StartMove(b[1], b[2])
    \/ StopMove
    \/ \E elapsed \in MoveDts : MoveTick(elapsed)
    \/ ApplyControls
    \/ TakeXray
    \/ \E throws \in BOOLEAN : TimerFire(throws)

Spec == Init /\ [][Next]_vars

\* The timer callback of a pending exposure runs: setTimeout callbacks are
\* not cancelled anywhere, the event loop runs every due callback.
SpecSettle == Spec /\ WF_vars(\E throws \in BOOLEAN : TimerFire(throws))

(***************************************************************************)
(* Pure functions checked on their own: the main state is held idle and    *)
(* the operands and the result live in fn.                                 *)
(***************************************************************************)
MainIdle ==
    /\ appVariant = "app"
    /\ panelVariant = 1
    /\ mounted = TRUE
    /\ loadState = [st |-> "pending", outcome |-> "none",
                    mountedAtSettle |-> FALSE]
    /\ patientBounds = NotReadyBounds
    /\ patientModel = FALSE
    /\ sceneHasPatient = FALSE
    /\ modelLoading = TRUE
    /\ controls = DefaultControls
    /\ joints = DefaultControls
    /\ intervalRef = NoMove
    /\ beamActive = FALSE
    /\ shot = NoShot
    /\ lastXray = NoXray
    /\ now = 0
    /\ lastDebugUpdate = 0
    /\ beamZoneKey = "miss"
    /\ beamRegion = "WAITING FOR PATIENT..."
    /\ beamHit = FALSE
    /\ reqId = "scheduled"
    /\ frame = NoFrame
    /\ moveTicks = 0
    /\ hist = NoHist

\* The initial states of a specification that applies one function: the
\* application is idle and fn holds one of the inputs.
InitFn(inputs) == MainIdle /\ fn \in inputs

\* --- getZoneKeyForEdge over every edge and t = tn / ZoneTDen in [0, 1] ---
ZoneTDen == 20

ApplyZone ==
    /\ fn.op = "zone"
    /\ fn' = [op |-> "zoneDone", variant |-> fn.variant, edge |-> fn.edge,
              tn |-> fn.tn,
              res |-> getZoneKeyForEdge(fn.variant, EDGES[fn.edge][1],
                                        EDGES[fn.edge][2], fn.tn, ZoneTDen)]
    /\ UNCHANGED mainVars

SpecZone ==
    /\ InitFn([op : {"zone"}, variant : {"app", "p0"}, edge : 1..Len(EDGES),
               tn : 0..ZoneTDen])
    /\ [][ApplyZone]_vars

\* --- the hit / interval block over a lattice of source and detector
\*     positions around a box: outside, on a face, inside ---
GridMax == 3

BeamBox ==
    [ready |-> TRUE, minX |-> -2, maxX |-> 2, minY |-> -2, maxY |-> 2,
     minZ |-> -1, maxZ |-> 1]

ApplyBeam ==
    /\ fn.op = "beam"
    /\ fn' = [op |-> "beamDone", v1 |-> fn.v1, v2 |-> fn.v2,
              res |-> BeamInterval(fn.v1, fn.v2, BeamBox)]
    /\ UNCHANGED mainVars

SpecBeam ==
    /\ LET grid == {Vec(a, b, c) : a \in -GridMax..GridMax,
                                    b \in -GridMax..GridMax, c \in -2..2}
       IN  InitFn([op : {"beam"}, v1 : grid, v2 : grid])
    /\ [][ApplyBeam]_vars

\* --- the voting loop over nine classified samples of two zones: the
\*     samples at the positions in `near` fall in zone A at squared distance
\*     dA, the others in zone B at squared distance dB (squared local
\*     units: 0..1 is within 1 cm, 81..121 is 9..11 cm) ---
VoteSamples(near, dA, dB) ==
    [i \in 1..SAMPLES |->
        IF i \in near THEN [zone |-> "knee", d2n |-> dA, d2d |-> 1]
        ELSE [zone |-> "tibia", d2n |-> dB, d2d |-> 1]]

ApplyVote ==
    /\ fn.op = "vote"
    /\ fn' = [op |-> "voteDone", near |-> fn.near, dA |-> fn.dA, dB |-> fn.dB,
              counts |-> Tally(VoteSamples(fn.near, fn.dA, fn.dB), 1, << >>),
              res |-> VoteWinner(VoteSamples(fn.near, fn.dA, fn.dB))]
    /\ UNCHANGED mainVars

SpecVote ==
    /\ InitFn([op : {"vote"}, near : SUBSET (1..SAMPLES), dA : {0, 1},
               dB : {81, 100, 121}])
    /\ [][ApplyVote]_vars

(***************************************************************************)
(* Properties                                                              *)
(***************************************************************************)
InRange(c) ==
    \A key \in ControlKeys :
        /\ CONTROL_SPECS(key).min <= c[key]
        /\ c[key] <= CONTROL_SPECS(key).max

\* C1: while the patient model or its bounds are not ready, every tick
\* publishes zone 'miss' with hit false and its pipeline raises no error
\* (the frame loop stays scheduled while mounted, unless orbit.update or
\* renderer.render threw); this is also the state before any tick.
C1_NotReadyIsMiss ==
    ~(patientModel /\ patientBounds.ready) =>
        /\ beamZoneKey = "miss"
        /\ ~beamHit
        /\ ~frame.pipelineError
        /\ ((mounted /\ ~frame.error) => reqId = "scheduled")

C1_Witness ==
    /\ ~patientBounds.ready
    /\ frame.classified
    /\ lastDebugUpdate > 0
    /\ moveTicks > 0
    /\ beamZoneKey = "miss"

\* C2: the zone key handed to the image generator when the exposure timer
\* fires is the zone published at the start of the exposure ('miss' if the
\* hit flag was false then), whatever ticks and control changes happened
\* during the delay.
C2_ZoneLatchedAtShot ==
    [][(shot.pending /\ ~shot'.pending /\ mounted) =>
          \/ lastXray' = lastXray        \* the image generation threw
          \/ /\ lastXray'.taken
             /\ lastXray'.zoneKeyOverride =
                    (IF hist.shotHit THEN hist.shotKey ELSE "miss")]_vars

C2_Witness ==
    /\ lastXray.taken
    /\ ~shot.pending
    /\ hist.shotHit
    /\ lastXray.zoneKeyOverride = hist.shotKey
    /\ frame.classified
    /\ beamZoneKey # lastXray.zoneKeyOverride
    /\ controls # lastXray.controls

\* C3: a tick whose beam enters the patient box within the source-detector
\* segment but whose clamped interval is empty publishes zone 'miss' and
\* hit false.
C3_EmptyIntervalIsMiss ==
    (/\ frame.classified
     /\ frame.hitEntry
     /\ frame.tStart.k = "fin"
     /\ frame.tEnd.k = "fin"
     /\ ExtLe(frame.tEnd, frame.tStart)) =>
        (beamZoneKey = "miss" /\ ~beamHit)

Inside(v, b) ==
    /\ b.minX < v.x /\ v.x < b.maxX
    /\ b.minY < v.y /\ v.y < b.maxY
    /\ b.minZ < v.z /\ v.z < b.maxZ

C5_ControlsInRange == InRange(controls)

\* C6: a model load that settles after the scene was torn down changes
\* nothing: no bounds, no model reference, no scene content, and the
\* modelLoading flag keeps its value.
C6_SettleAfterTeardown ==
    (loadState.st = "settled" /\ ~loadState.mountedAtSettle) =>
        /\ ~patientBounds.ready
        /\ ~patientModel
        /\ ~sceneHasPatient
        /\ modelLoading

C6_Witness ==
    /\ loadState.st = "settled"
    /\ loadState.outcome = "ok"
    /\ ~loadState.mountedAtSettle
    /\ ~mounted

\* C7: a failure to load the patient model while mounted is absorbed: the
\* bounds never become ready, ticks report 'miss' with hit false,
\* modelLoading is false, and the frame loop keeps running while mounted.
C7_PatientFailureAbsorbed ==
    (/\ loadState.st = "settled"
     /\ loadState.outcome = "patientFail"
     /\ loadState.mountedAtSettle) =>
        /\ ~patientBounds.ready
        /\ ~patientModel
        /\ beamZoneKey = "miss"
        /\ ~beamHit
        /\ ~modelLoading
        /\ ~frame.pipelineError
        /\ ((mounted /\ ~frame.error) => reqId = "scheduled")

C7_Witness ==
    /\ loadState.st = "settled"
    /\ loadState.outcome = "patientFail"
    /\ loadState.mountedAtSettle
    /\ mounted
    /\ hist.tickedSinceSettle
    /\ frame.classified
    /\ intervalRef # NoMove
    /\ moveTicks > 0
    /\ controls # DefaultControls

\* C8: a frame classifies only if more than 100 ms passed since the last
\* classifying frame, and a frame that does not classify leaves the
\* published zone key, label and hit flag unchanged.
C8_Throttle ==
    [][(now' # now) =>
          /\ (frame'.classified => now' - lastDebugUpdate > 100)
          /\ (~frame'.classified =>
                 UNCHANGED <<beamZoneKey, beamRegion, beamHit>>)]_vars

C8_Witness ==
    /\ ~frame.classified
    /\ lastDebugUpdate > 0
    /\ now - lastDebugUpdate = 100
    /\ beamHit
    /\ beamZoneKey # "miss"

\* C9: on a split edge the zone is the one of the smallest threshold
\* strictly greater than t (the far-end zone if there is none): knee-foot
\* 0.2 knee, 0.85 tibia, 1.0 foot; elbow-hand 0.7 forearm, 1.0 hand.
KneeFootEdge(e) == NameIncludes(e[1], "Knee") /\ NameIncludes(e[2], "Foot")

ElbowHandEdge(e) == NameIncludes(e[1], "Elbow") /\ NameIncludes(e[2], "Hand")

SmallestThresholdAbove(e, tn, td) ==
    IF KneeFootEdge(e)
    THEN (IF 5 * tn < td THEN "knee"
          ELSE IF 20 * tn < 17 * td THEN "tibia"
          ELSE "foot")
    ELSE (IF 10 * tn < 7 * td THEN "forearm" ELSE "hand")

C9_SmallestThresholdAbove ==
    (/\ fn.op = "zoneDone"
     /\ (KneeFootEdge(EDGES[fn.edge]) \/ ElbowHandEdge(EDGES[fn.edge]))) =>
        fn.res = SmallestThresholdAbove(EDGES[fn.edge], fn.tn, ZoneTDen)

\* C10: each sample adds 1 / (d2 + 1e-4) to its zone; with four samples in
\* zone A at about zero distance and five in zone B at about 0.1 m, zone A
\* is the classified zone.
C10_NearSamplesOutvote ==
    (fn.op = "voteDone" /\ Cardinality(fn.near) = 4) =>
        /\ fn.res = "knee"
        /\ \A i \in 1..Len(fn.counts) :
              /\ fn.counts[i].key = "knee" =>
                    fn.counts[i].w * (fn.dA + 1) = 4 * WeightScale
              /\ fn.counts[i].key = "tibia" =>
                    fn.counts[i].w * (fn.dB + 1) = 5 * WeightScale

C10_Witness ==
    /\ fn.op = "voteDone"
    /\ Cardinality(fn.near) = 4
    /\ fn.dA = 1
    /\ fn.dB = 81
    /\ 1 \notin fn.near
    /\ fn.res = "knee"

\* --- the voting loop over nine samples of three zones: sample i falls in
\*     zone zones[i], at the squared distance d[zone] (0 or 1 squared local
\*     unit, weights WeightScale and WeightScale / 2), so that equal totals
\*     occur with equal and with different sample counts ---
PickSamples(zones, d) ==
    [i \in 1..SAMPLES |-> [zone |-> zones[i], d2n |-> d[zones[i]], d2d |-> 1]]

ApplyPick ==
    /\ fn.op = "pick"
    /\ fn' = [op |-> "pickDone", zones |-> fn.zones, d |-> fn.d,
              res |-> VoteWinner(PickSamples(fn.zones, fn.d))]
    /\ UNCHANGED mainVars

SpecPick ==
    /\ LET zones == {"knee", "tibia", "foot"}
       IN  InitFn([op : {"pick"}, zones : [1..SAMPLES -> zones],
                   d : [zones -> {0, 1}]])
    /\ [][ApplyPick]_vars

\* --- the sampling block for beams through the patient box: sources and
\*     detectors in front of, inside and behind the box, straight and
\*     oblique ---
ApplySample ==
    /\ fn.op = "sample"
    /\ fn' = [op |-> "sampleDone", variant |-> fn.variant, v1 |-> fn.v1,
              v2 |-> fn.v2,
              res |-> ClassifyBeam(fn.variant, PatientBox, fn.v1, fn.v2)]
    /\ UNCHANGED mainVars

SpecSample ==
    /\ LET grid == {Vec(a, b, c) : a \in {-120, -60, 0, 60},
                                    b \in {-160, -80, 0, 80},
                                    c \in {-50, 0, 50}}
       IN  InitFn([op : {"sample"}, variant : {"app", "p0"}, v1 : grid,
                   v2 : grid])
    /\ [][ApplySample]_vars

\* C11: the winner of the vote is the zone with the highest total weight,
\* and among zones of equal highest weight the one voted for first
\* (earliest sample index).
SamplesIn(zones, z) == {i \in 1..SAMPLES : zones[i] = z}

TotalWeight(zones, d, z) ==
    Cardinality(SamplesIn(zones, z)) * (WeightScale \div (d[z] + 1))

FirstSample(zones, z) ==
    CHOOSE i \in SamplesIn(zones, z) : \A j \in SamplesIn(zones, z) : i <= j

Voted(zones) == {zones[i] : i \in 1..SAMPLES}

C11_HighestWeightFirstSeen ==
    (fn.op = "pickDone") =>
        /\ fn.res \in Voted(fn.zones)
        /\ \A z \in Voted(fn.zones) :
              \/ TotalWeight(fn.zones, fn.d, z)
                    < TotalWeight(fn.zones, fn.d, fn.res)
              \/ /\ TotalWeight(fn.zones, fn.d, z)
                       = TotalWeight(fn.zones, fn.d, fn.res)
                 /\ FirstSample(fn.zones, fn.res) <= FirstSample(fn.zones, z)

C11_Witness ==
    /\ fn.op = "pickDone"
    /\ fn.res = "tibia"
    /\ fn.zones[1] = "tibia"
    /\ Cardinality(SamplesIn(fn.zones, "tibia")) = 2
    /\ Cardinality(SamplesIn(fn.zones, "knee")) = 4
    /\ fn.d["tibia"] = 0
    /\ fn.d["knee"] = 1
    /\ fn.d["foot"] = 1

\* C12: when tEnd > tStart exactly 9 samples are classified, the first at
\* tStart, the last at tEnd, consecutive ones equally spaced; when
\* tEnd <= tStart (or the beam does not hit) none is classified.
FracEq(a, b) == a.k = "fin" /\ b.k = "fin" /\ a.n * b.d = b.n * a.d

C12_NineEvenSamples ==
    (fn.op = "sampleDone") =>
        IF fn.res.isHitting /\ ExtGt(fn.res.tEnd, fn.res.tStart)
        THEN /\ Len(fn.res.samples) = 9
             /\ FracEq(fn.res.samples[1].t, fn.res.tStart)
             /\ FracEq(fn.res.samples[9].t, fn.res.tEnd)
             /\ \A i \in 1..8 :
                   /\ fn.res.samples[i + 1].t.d = fn.res.samples[1].t.d
                   /\ fn.res.samples[i + 1].t.n - fn.res.samples[i].t.n
                         = fn.res.samples[2].t.n - fn.res.samples[1].t.n
                   /\ fn.res.samples[i + 1].t.n > fn.res.samples[i].t.n
        ELSE fn.res.samples = << >>

C12_Witness ==
    /\ fn.op = "sampleDone"
    /\ Len(fn.res.samples) = 9
    /\ fn.v1.x # fn.v2.x
    /\ fn.v1.y # fn.v2.y
    /\ ExtLt(ExtZero, fn.res.tStart)
    /\ ExtLt(fn.res.tEnd, ExtOne)
    /\ FracEq(fn.res.samples[9].t, fn.res.tEnd)

\* --- classifyLocalPointBySkeleton over a lattice of points of the patient
\*     box; the lattice holds landmarks shared by several edges ---
ApplyClassify ==
    /\ fn.op = "classify"
    /\ fn' = [op |-> "classifyDone", variant |-> fn.variant, p |-> fn.p,
              res |-> classifyLocalPointBySkeleton(fn.variant, fn.p,
                          LocalLandmarks(PatientBox))]
    /\ UNCHANGED mainVars

SpecClassify ==
    /\ InitFn([op : {"classify"}, variant : {"app", "p0"},
               p : {Vec(10 * a, 6 * b, 8 * c) :
                        a \in -10..10, b \in -25..25, c \in -1..1}])
    /\ [][ApplyClassify]_vars

\* C13: the returned d2 is the minimum over the 16 edges of the squared
\* distance from p to the edge's segment, the returned edge attains it and
\* is the earliest such edge of EDGES, and the zone is that edge's zone at
\* its own projection fraction.
EdgeDist(p, lm, e) ==
    distancePointToSegment(p, lm[EDGES[e][1]], lm[EDGES[e][2]])

SameD2(r, q) == ~FracLt(r.d2n, r.d2d, q.d2n, q.d2d)
                /\ ~FracLt(q.d2n, q.d2d, r.d2n, r.d2d)

\* 100 * |P - (A + (k / 10) * (B - A))|^2
TenthDist(p, a, b, k) ==
    Dot(Vec(10 * (p.x - a.x) - k * (b.x - a.x),
            10 * (p.y - a.y) - k * (b.y - a.y),
            10 * (p.z - a.z) - k * (b.z - a.z)),
        Vec(10 * (p.x - a.x) - k * (b.x - a.x),
            10 * (p.y - a.y) - k * (b.y - a.y),
            10 * (p.z - a.z) - k * (b.z - a.z)))

NearestOnEdge(p, lm, e, r) ==
    \A k \in 0..10 :
        ~FracLt(TenthDist(p, lm[EDGES[e][1]], lm[EDGES[e][2]], k), 100,
                r.d2n, r.d2d)

ClassifiedRight(variant, p, lm, res) ==
    /\ Len(EDGES) = 16
    /\ res.edge \in 1..16
    /\ SameD2(res, EdgeDist(p, lm, res.edge))
    /\ NearestOnEdge(p, lm, res.edge, res)
    /\ res.zone = getZoneKeyForEdge(variant, EDGES[res.edge][1],
                      EDGES[res.edge][2], EdgeDist(p, lm, res.edge).tn,
                      EdgeDist(p, lm, res.edge).td)
    /\ \A e \in 1..16 :
          /\ ~FracLt(EdgeDist(p, lm, e).d2n, EdgeDist(p, lm, e).d2d,
                     res.d2n, res.d2d)
          /\ (e < res.edge) => ~SameD2(res, EdgeDist(p, lm, e))

MaxExtent == 17

BoxOf(lo, ex, ey, ez) ==
    [ready |-> TRUE, minX |-> lo, maxX |-> lo + ex, minY |-> lo,
     maxY |-> lo + ey, minZ |-> lo, maxZ |-> lo + ez]

ApplyAxes ==
    /\ fn.op = "axes"
    /\ fn' = [op |-> "axesDone", lo |-> fn.lo, ex |-> fn.ex, ey |-> fn.ey,
              ez |-> fn.ez,
              res |-> getInferredPatientAxes(BoxOf(fn.lo, fn.ex, fn.ey, fn.ez))]
    /\ UNCHANGED mainVars

SpecAxes ==
    /\ InitFn([op : {"axes"}, lo : {-3, 0}, ex : 0..MaxExtent,
               ey : 0..MaxExtent, ez : 0..MaxExtent])
    /\ [][ApplyAxes]_vars

\* C14: getInferredPatientAxes returns a permutation of x, y, z with
\* extents in descending order; extents y = 1.7, x = 0.5, z = 0.3 give
\* long = y, width = x, thick = z; of two axes with equal extents the one
\* with the lower index (x, y, z) comes first.
AxisIndex(a) == CASE a = "x" -> 1 [] a = "y" -> 2 [] a = "z" -> 3

ExtentOf(f, a) == CASE a = "x" -> f.ex [] a = "y" -> f.ey [] a = "z" -> f.ez

InOrder(f, a, b) ==
    /\ ExtentOf(f, a) >= ExtentOf(f, b)
    /\ (ExtentOf(f, a) = ExtentOf(f, b)) => (AxisIndex(a) < AxisIndex(b))

C14_AxesSortedStable ==
    (fn.op = "axesDone") =>
        /\ {fn.res.long, fn.res.width, fn.res.thick} = {"x", "y", "z"}
        /\ InOrder(fn, fn.res.long, fn.res.width)
        /\ InOrder(fn, fn.res.width, fn.res.thick)
        /\ InOrder(fn, fn.res.long, fn.res.thick)
        /\ (fn.ey = 17 /\ fn.ex = 5 /\ fn.ez = 3) =>
              fn.res = [long |-> "y", width |-> "x", thick |-> "z"]

C14_Witness ==
    /\ fn.op = "axesDone"
    /\ fn.ex = 5
    /\ fn.ey = 5
    /\ fn.ez = 17
    /\ fn.res = [long |-> "z", width |-> "x", thick |-> "y"]

\* --- landmarkLocal for every landmark over boxes with positive extents
\*     (multiples of 100 local units, so that min + u * (max - min) is on
\*     the lattice) and every order of the axes ---
LandmarkBox(f) ==
    [ready |-> TRUE, minX |-> f.lx, maxX |-> f.lx + f.ex, minY |-> f.ly,
     maxY |-> f.ly + f.ey, minZ |-> f.lz, maxZ |-> f.lz + f.ez]

ApplyLandmark ==
    /\ fn.op = "landmark"
    /\ fn' = [fn EXCEPT !.op = "landmarkDone"]
             @@ [res |-> landmarkLocal(fn.name, LandmarkBox(fn),
                             getInferredPatientAxes(LandmarkBox(fn)))]
    /\ UNCHANGED mainVars

SpecLandmark ==
    /\ InitFn([op : {"landmark"}, name : LandmarkNames,
               lx : {-150, 0}, ly : {-150, 0}, lz : {-150, 0},
               ex : {100, 200, 300}, ey : {100, 200, 300},
               ez : {100, 200, 300}])
    /\ [][ApplyLandmark]_vars

\* C15: for bounds with positive extents every landmark lies at
\* min + u * (max - min) on the long, width and thick axes, except that the
\* width coordinate of the eight corrected landmarks (hands 0.20, knees
\* 0.12, feet 0.12, elbows 0.05) is moved away from the midline of the
\* width axis by the correction, on the side it was on.
Corrected ==
    {"rightHand", "leftHand", "rightKnee", "leftKnee", "rightFoot",
     "leftFoot", "rightElbow", "leftElbow"}

CorrectionOf(name) ==
    CASE name \in {"rightHand", "leftHand"} -> 20
      [] name \in {"rightKnee", "leftKnee", "rightFoot", "leftFoot"} -> 12
      [] name \in {"rightElbow", "leftElbow"} -> 5
      [] OTHER -> 0

\* 100 * (coordinate on axis a - (min + u * (max - min)))
OffNorm(b, res, a, u100) ==
    100 * (res[a] - BoundMin(b, a)) - u100 * Extent(b, a)

\* twice the signed distance of min + u * (max - min) from the midline
SideOf(b, a, u100) == (2 * u100 - 100) * Extent(b, a)

LandmarkPlaced(name, b, ax, u, res) ==
    /\ OffNorm(b, res, ax.long, u[1]) = 0
    /\ OffNorm(b, res, ax.thick, u[3]) = 0
    /\ IF name \in Corrected
       THEN /\ SideOf(b, ax.width, u[2]) # 0
            /\ OffNorm(b, res, ax.width, u[2]) =
                  (IF SideOf(b, ax.width, u[2]) > 0 THEN 100 ELSE -100)
                      * CorrectionOf(name)
       ELSE OffNorm(b, res, ax.width, u[2]) = 0

C15_LandmarkPlacement ==
    (fn.op = "landmarkDone") =>
        LandmarkPlaced(fn.name, LandmarkBox(fn),
                       getInferredPatientAxes(LandmarkBox(fn)),
                       LANDMARKS_NORM(fn.name), fn.res)

C15_Witness ==
    /\ fn.op = "landmarkDone"
    /\ fn.name = "leftHand"
    /\ fn.ex = 300 /\ fn.ey = 100 /\ fn.ez = 200 /\ fn.lz = -150
    /\ fn.res.z = -150 + 56 - 20
    /\ fn.res.x = fn.lx + 138
    /\ fn.res.y = fn.ly + 50

(***************************************************************************)
(* Beam Logic (World Space Alignment): the pose of the beam volume.        *)
(***************************************************************************)
RECURSIVE GCD(_, _)
GCD(a, b) == IF b = 0 THEN a ELSE GCD(b, a % b)

\* dir.normalize(): the unit vector along v, carried as the shortest integer
\* vector of the same direction; Vector3.normalize divides by
\* (length() || 1), which leaves the zero vector as it is.
UnitDir(v) ==
    IF v.x = 0 /\ v.y = 0 /\ v.z = 0 THEN v
    ELSE Vec(v.x \div GCD(GCD(Abs(v.x), Abs(v.y)), Abs(v.z)),
             v.y \div GCD(GCD(Abs(v.x), Abs(v.y)), Abs(v.z)),
             v.z \div GCD(GCD(Abs(v.x), Abs(v.y)), Abs(v.z)))

\* quaternion.setFromUnitVectors(yAxis, dir), carried as the direction the
\* beam's own y axis is turned to.  For dir = (0, 0, 0): r = yAxis . dir + 1
\* = 1, the cross product is 0, and the quaternion is the identity.
BeamAxis(unitDir) ==
    IF unitDir.x = 0 /\ unitDir.y = 0 /\ unitDir.z = 0 THEN Vec(0, 1, 0)
    ELSE unitDir

\* position.copy(v1); quaternion.setFromUnitVectors(yAxis, dir);
\* scale.set(0.2, sid, 0.2), with sid carried as its square.
BeamPose(v1, v2) ==
    [position |-> v1, axis |-> BeamAxis(UnitDir(Sub(v2, v1))),
     sidSq |-> Dot(Sub(v2, v1), Sub(v2, v1)), nan |-> FALSE]

\* --- the beam pose and the interval for source and detector on a small
\*     lattice, the two at the same point included, after a tick that left
\*     the pose prev ---
ApplyPose ==
    /\ fn.op = "pose"
    /\ fn' = [op |-> "poseDone", v1 |-> fn.v1, v2 |-> fn.v2, prev |-> fn.prev,
              pose |-> BeamPose(fn.v1, fn.v2),
              iv |-> BeamInterval(fn.v1, fn.v2, BeamBox)]
    /\ UNCHANGED mainVars

SpecPose ==
    /\ LET grid == {Vec(a, b, c) : a \in -1..1, b \in -1..1, c \in -1..1}
       IN  InitFn([op : {"pose"}, v1 : grid, v2 : grid,
                   prev : {BeamPose(Vec(0, 0, -1), Vec(1, 0, 1)),
                           BeamPose(Vec(0, 1, 0), Vec(0, -1, 0))}])
    /\ [][ApplyPose]_vars

FineEps == 4

\* if (lenSq < 1e-12): for integer lenSq in m^2 only lenSq = 0 is below.
TooShort(lenSq, unit) == IF unit = "m" THEN lenSq = 0 ELSE lenSq < FineEps

\* A point with rational coordinates n / d.
RatPoint(n, d) == [n |-> n, d |-> d]

\* copy(A).addScaledVector(ab, tn / td)
AddScaled(A, ab, tn, td) ==
    RatPoint(Vec(A.x * td + ab.x * tn, A.y * td + ab.y * tn,
                 A.z * td + ab.z * tn), td)

\* P.distanceTo(Q) squared, for a rational point Q
DistSqTo(P, Q) ==
    Fin(Dot(Vec(P.x * Q.d - Q.n.x, P.y * Q.d - Q.n.y, P.z * Q.d - Q.n.z),
            Vec(P.x * Q.d - Q.n.x, P.y * Q.d - Q.n.y, P.z * Q.d - Q.n.z)),
        Q.d * Q.d)

\* A projection that clamps t to [0, 1] before using it.
ProjectClamped(A, ab, ap, unit) ==
    IF TooShort(Dot(ab, ab), unit) \/ Dot(ap, ab) < 0
    THEN [t |-> Fin(0, 1), outClosest |-> RatPoint(A, 1), tmpAB |-> ab]
    ELSE IF Dot(ap, ab) > Dot(ab, ab)
    THEN [t |-> Fin(1, 1), outClosest |-> AddScaled(A, ab, 1, 1),
          tmpAB |-> ab]
    ELSE [t |-> Fin(Dot(ap, ab), Dot(ab, ab)),
          outClosest |-> AddScaled(A, ab, Dot(ap, ab), Dot(ab, ab)),
          tmpAB |-> ab]

\* The body of projectPointToLineParamsInto once tmpAB = B - A and
\* tmpAP = P - A are set: the returned t and the vectors written.
ProjectFrom(A, ab, ap, unit) ==
    IF TooShort(Dot(ab, ab), unit)
    THEN [t |-> Fin(0, 1), outClosest |-> RatPoint(A, 1), tmpAB |-> ab]
    ELSE [t |-> Fin(Dot(ap, ab), Dot(ab, ab)),
          outClosest |-> AddScaled(A, ab, Dot(ap, ab), Dot(ab, ab)),
          tmpAB |-> ab]

projectPointToLineParamsInto(P, A, B, unit) ==
    ProjectFrom(A, Sub(B, A), Sub(P, A), unit)

\* Math.max(0, Math.min(1, t))
Clamp01(t) ==
    IF t.n < 0 THEN Fin(0, 1) ELSE IF t.n > t.d THEN Fin(1, 1) ELSE t

\* A version that keeps the unclamped projection as the closest point.
NoAllocUnclamped(P, A, proj, tClamped) ==
    [dist2 |-> DistSqTo(P, proj.outClosest), outClosest |-> proj.outClosest]

\* Steps 3 and 4 of distancePointToSegmentNoAlloc: if (t !== tClamped)
\* outClosest is recomputed from tmpAB; return P.distanceTo(outClosest).
NoAllocFrom(P, A, proj, tClamped) ==
    IF tClamped # proj.t
    THEN [dist2 |-> DistSqTo(P, AddScaled(A, proj.tmpAB, tClamped.n,
                                          tClamped.d)),
          outClosest |-> AddScaled(A, proj.tmpAB, tClamped.n, tClamped.d)]
    ELSE [dist2 |-> DistSqTo(P, proj.outClosest),
          outClosest |-> proj.outClosest]

NoAllocOf(P, A, proj) == NoAllocFrom(P, A, proj, Clamp01(proj.t))

distancePointToSegmentNoAlloc(P, A, B, unit) ==
    NoAllocOf(P, A, projectPointToLineParamsInto(P, A, B, unit))

\* distancePointToSegment of imagingGeometry.js (the allocating version)
GeoSegmentFrom(P, A, ab, t, unit) ==
    IF TooShort(Dot(ab, ab), unit) THEN DistSqTo(P, RatPoint(A, 1))
    ELSE DistSqTo(P, AddScaled(A, ab, Clamp01(t).n, Clamp01(t).d))

geoDistancePointToSegment(P, A, B, unit) ==
    GeoSegmentFrom(P, A, Sub(B, A),
                   Fin(Dot(Sub(P, A), Sub(B, A)), Dot(Sub(B, A), Sub(B, A))),
                   unit)

\* --- the two functions over a lattice of P, A and B in both units ---
ApplyGeo ==
    /\ fn.op = "geo"
    /\ fn' = [op |-> "geoDone", unit |-> fn.unit, P |-> fn.P, A |-> fn.A,
              B |-> fn.B,
              proj |-> projectPointToLineParamsInto(fn.P, fn.A, fn.B, fn.unit),
              seg |-> distancePointToSegmentNoAlloc(fn.P, fn.A, fn.B, fn.unit),
              alloc |-> geoDistancePointToSegment(fn.P, fn.A, fn.B, fn.unit)]
    /\ UNCHANGED mainVars

SpecGeo ==
    /\ LET grid == {Vec(a, b, c) : a \in -1..3, b \in -1..1, c \in 0..1}
       IN  InitFn([op : {"geo"}, unit : {"m", "fine"}, P : grid, A : grid,
                   B : grid])
    /\ [][ApplyGeo]_vars

\* C17 (as stated): for every P and every pair of distinct A, B the
\* function returns the unclamped t = (P - A).(B - A) / |B - A|^2 and
\* writes outClosest = A + t (B - A); for A = B it returns 0 and writes A.
RatOnLine(Q, A, ab, t) ==
    /\ Q.n.x * t.d = Q.d * (A.x * t.d + t.n * ab.x)
    /\ Q.n.y * t.d = Q.d * (A.y * t.d + t.n * ab.y)
    /\ Q.n.z * t.d = Q.d * (A.z * t.d + t.n * ab.z)

RatIsPoint(Q, A) == Q.n = Vec(A.x * Q.d, A.y * Q.d, A.z * Q.d)

FootOf(P, Q, ab) ==
    Dot(Vec(P.x * Q.d - Q.n.x, P.y * Q.d - Q.n.y, P.z * Q.d - Q.n.z), ab) = 0

ProjectionRight(P, A, ab, ap, r) ==
    /\ r.t.n * Dot(ab, ab) = Dot(ap, ab) * r.t.d
    /\ (Dot(ap, ab) < 0) => (r.t.n < 0)
    /\ (Dot(ap, ab) > Dot(ab, ab)) => (r.t.n > r.t.d)
    /\ (2 * Dot(ap, ab) = Dot(ab, ab)) => (2 * r.t.n = r.t.d)
    /\ RatOnLine(r.outClosest, A, ab, r.t)
    /\ FootOf(P, r.outClosest, ab)

ProjectionDegenerate(A, r) == r.t.n = 0 /\ RatIsPoint(r.outClosest, A)

C17_ProjectionOfDistinct ==
    (fn.op = "geoDone") =>
        IF fn.A # fn.B
        THEN ProjectionRight(fn.P, fn.A, Sub(fn.B, fn.A), Sub(fn.P, fn.A),
                             fn.proj)
        ELSE ProjectionDegenerate(fn.A, fn.proj)

\* C17 (amended): the same for every A, B with |B - A|^2 >= 1e-12; when
\* |B - A|^2 < 1e-12 (A and B coincide or are less than 1e-6 apart) the
\* function returns 0 and writes outClosest = A.
AtLeastEps(A, B, unit) ==
    IF unit = "m" THEN A # B ELSE Dot(Sub(B, A), Sub(B, A)) >= 4

C17_ProjectionAboveEps ==
    (fn.op = "geoDone") =>
        IF AtLeastEps(fn.A, fn.B, fn.unit)
        THEN ProjectionRight(fn.P, fn.A, Sub(fn.B, fn.A), Sub(fn.P, fn.A),
                             fn.proj)
        ELSE ProjectionDegenerate(fn.A, fn.proj)

C17_Witness ==
    /\ fn.op = "geoDone"
    /\ fn.unit = "m"
    /\ fn.A = Vec(0, 0, 0) /\ fn.B = Vec(2, 0, 0) /\ fn.P = Vec(-1, 1, 0)
    /\ fn.proj.t.n < 0
    /\ fn.proj.outClosest.n.x = -fn.proj.outClosest.d

\* C18 (as stated): for every P, A, B distancePointToSegmentNoAlloc returns
\* the distance from P to the nearest point of the segment AB and leaves
\* that point in outClosest (the endpoint when the projection falls outside
\* [0, 1]; B and squared distance 2 for P = (3,1,0), A = (0,0,0),
\* B = (2,0,0)), and the allocating distancePointToSegment returns the same.
FracLe(a, b) == a.n * b.d <= b.n * a.d

\* 16 * |P - (A + (k / 4) * ab)|^2
QuarterDist(P, A, ab, k) ==
    Dot(Vec(4 * (P.x - A.x) - k * ab.x, 4 * (P.y - A.y) - k * ab.y,
            4 * (P.z - A.z) - k * ab.z),
        Vec(4 * (P.x - A.x) - k * ab.x, 4 * (P.y - A.y) - k * ab.y,
            4 * (P.z - A.z) - k * ab.z))

SegmentRight(P, A, B, ab, ap, r, alloc) ==
    /\ FracEq(r.dist2, DistSqTo(P, r.outClosest))
    /\ \A k \in 0..4 : FracLe(r.dist2, Fin(QuarterDist(P, A, ab, k), 16))
    /\ (Dot(ap, ab) <= 0) => RatIsPoint(r.outClosest, A)
    /\ (Dot(ap, ab) >= Dot(ab, ab)) => RatIsPoint(r.outClosest, B)
    /\ (Dot(ap, ab) > 0 /\ Dot(ap, ab) < Dot(ab, ab)) =>
          /\ FootOf(P, r.outClosest, ab)
          /\ RatOnLine(r.outClosest, A, ab, Fin(Dot(ap, ab), Dot(ab, ab)))
    /\ (P = Vec(3, 1, 0) /\ A = Vec(0, 0, 0) /\ B = Vec(2, 0, 0)) =>
          FracEq(r.dist2, Fin(2, 1))
    /\ FracEq(r.dist2, alloc)

C18_NearestOnSegment ==
    (fn.op = "geoDone") =>
        SegmentRight(fn.P, fn.A, fn.B, Sub(fn.B, fn.A), Sub(fn.P, fn.A),
                     fn.seg, fn.alloc)

\* C18 (amended): the same for every segment with |B - A|^2 >= 1e-12; a
\* shorter segment is treated as the point A: outClosest = A and the result
\* is the distance from P to A, again equal to the allocating version's.
C18_NearestAboveEps ==
    (fn.op = "geoDone") =>
        IF AtLeastEps(fn.A, fn.B, fn.unit)
        THEN SegmentRight(fn.P, fn.A, fn.B, Sub(fn.B, fn.A), Sub(fn.P, fn.A),
                          fn.seg, fn.alloc)
        ELSE /\ RatIsPoint(fn.seg.outClosest, fn.A)
             /\ FracEq(fn.seg.dist2,
                       Fin(Dot(Sub(fn.P, fn.A), Sub(fn.P, fn.A)), 1))
             /\ FracEq(fn.seg.dist2, fn.alloc)

C18_Witness ==
    /\ fn.op = "geoDone"
    /\ fn.unit = "m"
    /\ fn.P = Vec(3, 1, 0) /\ fn.A = Vec(0, 0, 0) /\ fn.B = Vec(2, 0, 0)
    /\ RatIsPoint(fn.seg.outClosest, fn.B)
    /\ FracEq(fn.seg.dist2, Fin(2, 1))

(***************************************************************************)
(* ArduinoServoControl.ino.  The firmware's state lives in fn: the String   *)
(* line, the bytes the host has sent and loop has not read yet (rx), and    *)
(* the angle last written to each servo.  int is 16 bits wide and long 32   *)
(* (AVR).                                                                  *)
(***************************************************************************)
WIG_CENTER == 90

COL_CENTER == 90

WIG_GAIN == 1

COL_GAIN == 1

WIG_MIN == 20

WIG_MAX == 160

COL_MIN == 20

COL_MAX == 160

IntMin == -32768

IntMax == 32767

LongMax == 2147483647

\* The value an int holds after a conversion that wraps.
WrapInt(v) == ((v + 32768) % 65536) - 32768

\* A clamp that forgets the upper limit.
clampIntLow(v, lo, hi) == IF v < lo THEN lo ELSE v

\* int clampInt(int v, int lo, int hi)
clampInt(v, lo, hi) == IF v < lo THEN lo ELSE IF v > hi THEN hi ELSE v

\* The value of a digit character; -1 for any other character.
DigitOf(c) ==
    LET digits == <<"0", "1", "2", "3", "4", "5", "6", "7", "8", "9">>
    IN  IF \E d \in 1..10 : digits[d] = c
        THEN (CHOOSE d \in 1..10 : digits[d] = c) - 1
        ELSE -1

\* str.indexOf(pat, from) for a two-character pattern c1 c2, 1-based; 0
\* for -1.
RECURSIVE indexOf(_, _, _, _)
indexOf(str, c1, c2, i) ==
    IF i + 1 > Len(str) THEN 0
    ELSE IF str[i] = c1 /\ str[i + 1] = c2 THEN i
    ELSE indexOf(str, c1, c2, i + 1)

\* line.substring(from), from 0-based
substring(str, from) == SubSeq(str, from + 1, Len(str))

\* The digits of atol: n is the value while it fits a long (ov = FALSE),
\* w the value modulo 2^16.
RECURSIVE ParseDigits(_, _, _, _, _)
ParseDigits(str, i, n, w, ov) ==
    IF i > Len(str) \/ DigitOf(str[i]) < 0 THEN [n |-> n, w |-> w, ov |-> ov]
    ELSE ParseDigits(str, i + 1,
             IF ov \/ n > (LongMax - DigitOf(str[i])) \div 10 THEN n
             ELSE 10 * n + DigitOf(str[i]),
             (10 * w + DigitOf(str[i])) % 65536,
             ov \/ n > (LongMax - DigitOf(str[i])) \div 10)

RECURSIVE SkipSpace(_, _)
SkipSpace(str, i) ==
    IF i <= Len(str) /\ str[i] \in {" ", "\t"} THEN SkipSpace(str, i + 1)
    ELSE i

\* The int values `int v = str.toInt()` can hold.  toInt is atol: leading
\* white space, an optional sign, digits; 0 without digits.  The long is
\* converted to int by wrapping.  A number that overflows the long is
\* undefined for atol: the builds either wrap or saturate at LONG_MAX /
\* LONG_MIN.
SignedOutcomes(neg, r) ==
    IF ~r.ov THEN {WrapInt(IF neg THEN -r.n ELSE r.n)}
    ELSE {WrapInt(IF neg THEN -r.w ELSE r.w), IF neg THEN 0 ELSE -1}

ToIntFrom(str, i) ==
    IF i <= Len(str) /\ str[i] \in {"-", "+"}
    THEN SignedOutcomes(str[i] = "-", ParseDigits(str, i + 1, 0, 0, FALSE))
    ELSE SignedOutcomes(FALSE, ParseDigits(str, i, 0, 0, FALSE))

toInt(str) == ToIntFrom(str, SkipSpace(str, 1))

\* (int)(CENTER + (val - 90) * GAIN): val - 90 in int (signed overflow is
\* undefined: it wraps or stays at INT_MIN), the product and sum in float
\* (exact at this size), and the cast back to int (out of range is
\* undefined: it wraps or saturates).
DiffOutcomes(val) ==
    IF val - 90 < IntMin THEN {WrapInt(val - 90), IntMin} ELSE {val - 90}

CastOutcomes(x) ==
    IF x > IntMax THEN {WrapInt(x), IntMax}
    ELSE IF x < IntMin THEN {WrapInt(x), IntMin}
    ELSE {x}

ServoOutcomes(val, center, gain) ==
    UNION {CastOutcomes(center + d * gain) : d \in DiffOutcomes(val)}

\* What the host sends in one piece; a piece without '\n' leaves the line
\* open for the next one.
MaxLine == 20

HostChunks ==
    {<<"W", ":", "9", "0", " ", "C", ":", "9", "0", "\n">>,
     <<"W", ":", "-", "5", " ", "C", ":", "9", "9", "9", "\r", "\n">>,
     <<"W", ":", "9", "9", "9", "9", "9", " ", "C", ":", "-", "9", "9", "9", "9", "9", "\n">>,
     <<"W", ":", "-", "3", "2", "7", "6", "8", " ", "C", ":", "3", "2", "7", "6", "7", "\n">>,
     <<"W", ":", "4", "2", "9", "4", "9", "6", "7", "3", "8", "6", " ", "C", ":", "x", "\n">>,
     <<"W", ":", "a", "b", "c", " ", "C", ":", "\n">>,
     <<"C", ":", "2", "0", "0", "W", ":", "1", "0", "\n">>,
     <<"W", ":", "9", "0", "\n">>,
     <<"\n">>,
     <<"W", ":", "1">>,
     <<"6", "0", " ", "C", ":", " ", "4", "5", "\n">>}

\* The host writes a piece to the serial port.
HostSend(chunk) ==
    /\ fn.op = "servo"
    /\ fn.rx = << >>
    /\ Len(fn.line) + Len(chunk) <= MaxLine
    /\ fn' = [fn EXCEPT !.rx = chunk]
    /\ UNCHANGED mainVars

\* The body of `if (ch == '\n')`: parse the line, write both servos.
LineDone(wPos, cPos) ==
    IF wPos # 0 /\ cPos # 0
    THEN \E wVal \in toInt(substring(fn.line, wPos + 1)),
            cVal \in toInt(substring(fn.line, cPos + 1)) :
           \E wServo \in ServoOutcomes(wVal, WIG_CENTER, WIG_GAIN),
              cServo \in ServoOutcomes(cVal, COL_CENTER, COL_GAIN) :
             fn' = [fn EXCEPT !.rx = Tail(fn.rx), !.line = << >>,
                       !.servoWigWag = clampInt(wServo, WIG_MIN, WIG_MAX),
                       !.servoColRot = clampInt(cServo, COL_MIN, COL_MAX),
                       !.wVal = wVal, !.cVal = cVal, !.writes = 1]
    ELSE fn' = [fn EXCEPT !.rx = Tail(fn.rx), !.line = << >>]

\* One pass of `while (Serial.available())`: read one byte.
LoopRead ==
    /\ fn.op = "servo"
    /\ fn.rx # << >>
    /\ IF Head(fn.rx) = "\n"
       THEN LineDone(indexOf(fn.line, "W", ":", 1),
                     indexOf(fn.line, "C", ":", 1))
       ELSE IF Head(fn.rx) # "\r"
       THEN fn' = [fn EXCEPT !.rx = Tail(fn.rx),
                             !.line = Append(fn.line, Head(fn.rx))]
       ELSE fn' = [fn EXCEPT !.rx = Tail(fn.rx)]
    /\ UNCHANGED mainVars

SpecServo ==
    /\ InitFn({[op |-> "servo", line |-> << >>, rx |-> << >>,
             servoWigWag |-> WIG_CENTER, servoColRot |-> COL_CENTER,
             wVal |-> 90, cVal |-> 90, writes |-> 0]})
    /\ [][(\E chunk \in HostChunks : HostSend(chunk)) \/ LoopRead]_vars

\* C19: every angle written to either servo is within [20, 160] (setup
\* writes 90), whatever bytes arrive: negative, very large or non-numeric
\* values after "W:" and "C:" included.
C19_ServoWithinLimits ==
    (fn.op = "servo") =>
        /\ fn.servoWigWag \in 20..160
        /\ fn.servoColRot \in 20..160

C19_Witness ==
    /\ fn.op = "servo"
    /\ fn.writes = 1
    /\ fn.wVal = -5
    /\ fn.cVal = 999
    /\ fn.servoWigWag = 20
    /\ fn.servoColRot = 160

\* C20: a point whose nearest skeleton edge is upperSpine -> leftShoulder
\* or upperSpine -> rightShoulder is classified into a shoulder zone
\* (shoulder in App.jsx; left_shoulder / right_shoulder in part_000), not
\* into thorax.
ShoulderEdge(e) ==
    /\ e \in 1..Len(EDGES)
    /\ EDGES[e][1] = "upperSpine"
    /\ NameIncludes(EDGES[e][2], "Shoulder")

ShoulderZoneOf(variant, e) ==
    IF variant = "app" THEN "shoulder"
    ELSE IF NameIncludes(EDGES[e][2], "left") THEN "left_shoulder"
    ELSE "right_shoulder"

C20_ShoulderEdgeIsShoulder ==
    (fn.op = "classifyDone" /\ ShoulderEdge(fn.res.edge)) =>
        fn.res.zone = ShoulderZoneOf(fn.variant, fn.res.edge)

\* C21: whenever the source-detector segment overlaps the patient box over
\* a stretch of positive length, the tick samples exactly that stretch:
\* [tStart, tEnd] is the part of [0, 1] along the beam that lies inside the
\* box, also when the source or the detector lies inside the box.
\*
\* The part of the line o + t * d inside one slab [lo, hi], as a pair of
\* fractions; an empty part is the pair (1, 0).
SlabPart(o, d, lo, hi) ==
    IF d = 0
    THEN (IF lo <= o /\ o <= hi THEN <<NInf, PInf>> ELSE <<ExtOne, ExtZero>>)
    ELSE IF d > 0 THEN <<Fin(lo - o, d), Fin(hi - o, d)>>
    ELSE <<Fin(hi - o, d), Fin(lo - o, d)>>

\* The part of [0, 1] of the segment v1 -> v2 that lies inside the box.
SegmentInBox(v1, v2, b) ==
    LET px == SlabPart(v1.x, v2.x - v1.x, b.minX, b.maxX)
        py == SlabPart(v1.y, v2.y - v1.y, b.minY, b.maxY)
        pz == SlabPart(v1.z, v2.z - v1.z, b.minZ, b.maxZ)
    IN  <<MathMax(ExtZero, MathMax(px[1], MathMax(py[1], pz[1]))),
          MathMin(ExtOne, MathMin(px[2], MathMin(py[2], pz[2])))>>

SamplesStretch(res, part) ==
    ExtLt(part[1], part[2]) =>
        /\ res.isHitting
        /\ res.sampled
        /\ FracEq(res.tStart, part[1])
        /\ FracEq(res.tEnd, part[2])

C21_SamplesTheOverlap ==
    (fn.op = "beamDone") =>
        SamplesStretch(fn.res, SegmentInBox(fn.v1, fn.v2, BeamBox))

\* C22: controls are locked while exposing: from the moment beamActive
\* becomes true until it becomes false again no step changes a ControlState
\* scalar, a hold-to-move loop started before the exposure included.
C22_LockedWhileExposing == [][beamActive => controls' = controls]_vars

\* C23: every started exposure settles: beamActive becomes true when the
\* action starts and false again when the timer fires, also when the image
\* generation throws, and then the stored image is left as it was.  (The
\* state of a component that was unmounted meanwhile no longer exists.)
ExposureStarts == (~beamActive /\ beamActive') => (shot'.pending /\ mounted)

TimerSettles ==
    (shot.pending /\ ~shot'.pending /\ mounted) =>
        /\ ~beamActive'
        /\ \/ lastXray' = lastXray
           \/ \E atlasReady \in BOOLEAN :
                 lastXray' = generateRealisticXray(appVariant, atlasReady,
                                 shot.shotControls, shot.regionKeyAtShot)

C23_ExposureSettles ==
    /\ [][ExposureStarts /\ TimerSettles]_vars
    /\ (beamActive /\ mounted) ~> (~beamActive \/ ~mounted)

C23_Witness ==
    /\ mounted
    /\ ~beamActive
    /\ ~shot.pending
    /\ hist.shotHit
    /\ lastXray = NoXray

\* C24: an exception thrown inside one animation tick is caught: the frame
\* that was already requested is cancelled, and from then on no tick runs,
\* so the published zone key and hit flag keep their last values.
CrashCancels == frame'.error => reqId' = "cancelled"

NoTickAfterCrash ==
    frame.error =>
        /\ frame' = frame
        /\ now' = now
        /\ reqId' = "cancelled"
        /\ beamZoneKey' = beamZoneKey
        /\ beamRegion' = beamRegion
        /\ beamHit' = beamHit

C24_CrashStopsLoop == [][CrashCancels /\ NoTickAfterCrash]_vars

C24_Witness ==
    /\ mounted
    /\ frame.error
    /\ frame.classified
    /\ beamHit
    /\ shot.pending

\* C25 (as stated): with the patient ready and the loop running, once
\* ControlState has stopped changing the next classification tick publishes
\* the classification of that ControlState, and the published zone key and
\* hit flag stay equal to it.
PatientReady == patientModel /\ patientBounds.ready

\* The classification of the loaded patient for the poses the panel buttons
\* reach from the initial ones (cart_x steps of 0.01 m and 0.06 m), computed
\* once.
PoseTable ==
    {[variant |-> v, pose |-> [c EXCEPT !.cart_x = @ + k * s],
      res |-> ClassifyTick(v, TRUE, PatientBox,
                           [c EXCEPT !.cart_x = @ + k * s])] :
        v \in {"app", "p0"}, c \in InitControls,
        k \in -MaxMoveTicks..MaxMoveTicks, s \in {1000, 6000}}

\* The classification block applied to the pose c: looked up in PoseTable
\* when it is there, computed otherwise.
ClassificationOf(c) ==
    IF /\ patientModel
       /\ patientBounds = PatientBox
       /\ \E e \in PoseTable : e.variant = appVariant /\ e.pose = c
    THEN (CHOOSE e \in PoseTable :
              e.variant = appVariant /\ e.pose = c).res
    ELSE ClassifyTick(appVariant, patientModel, patientBounds, c)

PublishedIs(c) ==
    \A r \in {ClassificationOf(c)} :
        beamZoneKey = r.zone.key /\ beamHit = r.isHitting

PublishedNext(c) ==
    \A r \in {ClassificationOf(c)} :
        beamZoneKey' = r.zone.key /\ beamHit' = r.isHitting

ClassificationTick ==
    /\ lastDebugUpdate' # lastDebugUpdate
    /\ PatientReady
    /\ ~frame'.pipelineError

TickPublishesJoints ==
    ClassificationTick => PublishedNext(joints)

StaysPublished ==
    (/\ PatientReady
     /\ joints = controls
     /\ controls' = controls
     /\ ~ClassificationTick) =>
        /\ patientModel' = patientModel
        /\ patientBounds' = patientBounds
        /\ beamZoneKey' = beamZoneKey
        /\ beamHit' = beamHit

ProducesImage == shot.pending /\ ~shot'.pending /\ lastXray' # lastXray

C26_MissWhenNotHit ==
    [][(appVariant = "app" /\ ProducesImage) =>
          /\ ~lastXray'.legacy
          /\ ~hist.shotHit =>
                /\ lastXray'.zone = "miss"
                /\ lastXray'.label = "MISS (OFF PATIENT)"]_vars

C26_Witness ==
    /\ appVariant = "app"
    /\ lastXray.taken
    /\ ~hist.shotHit
    /\ ~shot.pending
    /\ beamHit
    /\ beamZoneKey # "miss"
    /\ lastXray.zone = "miss"
    /\ lastXray.label = "MISS (OFF PATIENT)"

\* C27 (as stated): in the part_000 variant the anatomy label set by an
\* exposure is the label of the latched zone key the generator was invoked
\* with.
C27_LabelOfLatchedZone ==
    (appVariant = "p0" /\ lastXray.taken /\ lastXray.label # "") =>
        lastXray.label = ZoneOrMiss("p0", lastXray.zoneKeyOverride).label

\* C28 (as stated): the zone latched at exposure start is the classification
\* of the ControlState snapshot taken by the same action: once a tick has
\* classified the loaded patient, an exposure never latches a zone that was
\* classified for a different pose than its shotControls.
LatchedKeyOf(r) == IF r.isHitting THEN r.zone.key ELSE "miss"

C28_ZoneOfShotControls ==
    [][(~shot.pending /\ shot'.pending /\ PatientReady
        /\ hist.tickedSinceSettle /\ frame.classified) =>
          shot'.regionKeyAtShot =
              LatchedKeyOf(ClassificationOf(shot'.shotControls))]_vars

\* C29: in every reachable state the published results are mutually
\* consistent: a published zone key other than 'miss' comes with a true hit
\* flag, and a tick that sampled the beam (tEnd > tStart, landmarks resolved)
\* has published a zone other than 'miss' together with a true hit flag.
SampledTick == frame.classified /\ frame.sampled /\ ~frame.pipelineError

C29_PublishedConsistent ==
    /\ beamZoneKey # "miss" => beamHit
    /\ SampledTick => (beamZoneKey # "miss" /\ beamHit)

C29_Witness ==
    /\ SampledTick
    /\ beamHit
    /\ beamZoneKey \in ZoneKeysApp \ {"miss"}
    /\ moveTicks > 0

(***************************************************************************)
(* The serial link of part_000: the 40 ms servo interval, sendServos and    *)
(* the firmware loop above.                                                *)
(***************************************************************************)
\* Messages the app sends in one run.
MaxMsgs == 3

\* A mapping that adds the simulator angle to the centre without scaling it
\* to the servo's travel.
ServoDegUnscaled(md, lim, span) ==
    Clamp(90 * lim * 1000 + md * lim, 0, 180 * lim * 1000)

\* clamp(90 + (deg / lim) * span, 0, 180) for an angle of md millidegrees:
\* the numerator of the servo angle over lim * 1000.
ServoDeg(md, lim, span) ==
    Clamp(90 * lim * 1000 + md * span, 0, 180 * lim * 1000)

\* `${Math.round(x)}` for x = num / (lim * 1000): Math.round rounds halves up;
\* the decimal digits of the result, with a leading "-" when negative.
RECURSIVE toString(_)
toString(n) ==
    IF n < 0 THEN <<"-">> \o toString(-n)
    ELSE IF n < 10
    THEN <<(<<"0", "1", "2", "3", "4", "5", "6", "7", "8", "9">>)[n + 1]>>
    ELSE toString(n \div 10) \o toString(n % 10)

MathRound(num, lim) == (2 * num + lim * 1000) \div (2 * lim * 1000)

\* sendServos(wigDeg, colDeg): msg = `W:${round(wigDeg)} C:${round(colDeg)}\n`
sendServos(wNum, cNum) ==
    <<"W", ":">> \o toString(MathRound(wNum, 23)) \o <<" ", "C", ":">>
        \o toString(MathRound(cNum, 86)) \o <<"\n">>

\* The setInterval callback for the ControlState angles w and c
\* (millidegrees); late tells whether more than 200 ms passed since the last
\* message.  The writer queues the bytes behind those still unread.
ServoTick(w, c, late) ==
    /\ fn.op = "servo"
    /\ Len(fn.sent) < MaxMsgs
    /\ IF \/ fn.lastW # -1 /\ Abs(ServoDeg(w, 23, 45) - fn.lastW) >= 23000
          \/ fn.lastC # -1 /\ Abs(ServoDeg(c, 86, 70) - fn.lastC) >= 86000
          \/ late
       THEN fn' = [fn EXCEPT
                !.lastW = ServoDeg(w, 23, 45),
                !.lastC = ServoDeg(c, 86, 70),
                !.rx = fn.rx \o sendServos(ServoDeg(w, 23, 45),
                                           ServoDeg(c, 86, 70)),
                !.sent = Append(fn.sent,
                                <<MathRound(ServoDeg(w, 23, 45), 23),
                                  MathRound(ServoDeg(c, 86, 70), 86)>>)]
       ELSE fn' = fn
    /\ UNCHANGED mainVars

SpecLink ==
    /\ InitFn({[op |-> "servo", line |-> << >>, rx |-> << >>,
                servoWigWag |-> WIG_CENTER, servoColRot |-> COL_CENTER,
                wVal |-> 90, cVal |-> 90, writes |-> 0,
                lastW |-> -1, lastC |-> -1, sent |-> << >>]})
    /\ [][\/ \E w \in {-23000, -11500, 23000},
               c \in {-86000, 1000, 86000}, late \in BOOLEAN :
               ServoTick(w, c, late)
          \/ LoopRead]_vars

\* C30: for wig_wag and column_rot within their limits, every message the
\* app sends is parsed by the firmware to the two integers sent, the clamp
\* to [20, 160] leaves them unaltered, and the angles written to the servos
\* are the values the app sent, in the order sent: the k-th line the
\* firmware completes writes the k-th pair sent.
RECURSIVE CountNewlines(_)
CountNewlines(bytes) ==
    IF bytes = << >> THEN 0
    ELSE (IF Head(bytes) = "\n" THEN 1 ELSE 0) + CountNewlines(Tail(bytes))

LineCompletes == fn.rx # << >> /\ Head(fn.rx) = "\n" /\ fn'.rx = Tail(fn.rx)

C30_ServosFollowApp ==
    [][LineCompletes =>
          LET k == Len(fn.sent) - CountNewlines(fn.rx) + 1 IN
          /\ <<fn'.wVal, fn'.cVal>> = fn.sent[k]
          /\ <<fn'.servoWigWag, fn'.servoColRot>> = fn.sent[k]]_vars

C30_Witness ==
    /\ fn.op = "servo"
    /\ fn.sent = <<<<135, 20>>, <<68, 160>>, <<45, 91>>>>
    /\ CountNewlines(fn.rx) = 1
    /\ fn.servoWigWag = 68
    /\ fn.servoColRot = 160
=============================================================================
